---- MODULE Spec2Model ----
(***************************************************************************)
(* Verification model of the nordfjordeid course material: the three       *)
(* IPython notebooks (preconditioning.ipynb, coupled.ipynb and the Stokes  *)
(* exercise) and the functions they define.                                *)
(*                                                                         *)
(* The specifications are defined over one set of variables:               *)
(*   SpecNB    kernel namespace and side effects of running code cells     *)
(*   SpecLoop  the solver experiment loops of preconditioning.ipynb        *)
(*   SpecAsm   mesh guards, matrix dimensions and boundary markers         *)
(*   SpecDiag  Diag / InvDiag on small matrices                            *)
(*   SpecHC    HyperCubeMesh: the constructor looked up by dimension       *)
(*   SpecStokes  the convergence study and plot of the Stokes exercise     *)
(*   SpecGuess the initial guess handed to the solvers                     *)
(*   SpecMake  the Makefile of the LaTeX notes                             *)
(*   SpecRich  the contraction factor of the Richardson map                *)
(*   SpecSD    steepest_descent (SpecSDFair: the call keeps executing)     *)
(***************************************************************************)
EXTENDS Integers, Sequences, FiniteSets, TLC

VARIABLES
  \* --- notebook kernel (SpecNB) ---
  nb,        \* notebook being executed
  mode,      \* "top": all cells top to bottom; "fresh": one cell on a fresh kernel
  cell,      \* index of the code cell being executed
  stmt,      \* index of the next statement of that cell
  ns,        \* kernel namespace: bound name -> "val" or the id of a user function
  unbound,   \* names whose lookup failed (the NameError is for one of them)
  nbpc,      \* "run", "done", "error", "idle"
  files,     \* files written so far
  sysPath,   \* entries appended to sys.path
  settings,  \* plotting defaults (backend and matplotlib.rcParams entries)
  \* --- experiment loops (SpecLoop) ---
  loop,      \* experiment cell being executed
  idx,       \* position in the cell's list of n values
  lpc,       \* position in the loop body
  hist,      \* events of the current iteration
  out,       \* lines printed by the cell
  raised,    \* [n |-> .., at |-> ..] once an exception propagated, else NoRaise
  dofs,      \* A.size(0) of the system assembled for the current n
  niters,    \* iteration count returned by the solver for the current n
  \* --- assembly functions (SpecAsm) ---
  fn,        \* function or cell being executed
  args,      \* its arguments
  apc,       \* position in it
  mesh,      \* mesh built by it
  sizes,     \* dimensions of the assembled objects
  markers,   \* facet markers (poisson)
  bcFacets,  \* facets carrying the Dirichlet condition (poisson)
  asserted,  \* outcomes of the assert statements executed so far
  \* --- Diag / InvDiag (SpecDiag) ---
  matA,      \* the matrix A passed in
  matA0,     \* A as it was before the calls
  matD,      \* result of Diag(A)
  matI,      \* result of InvDiag(A)
  dvec,      \* the local vector dvec of the running function
  dpc,       \* position in the two calls
  \* --- HyperCubeMesh (SpecHC) ---
  hcDim,     \* argument dim
  hcN,       \* argument ncells
  hcpc,      \* position in the return expression, or the exception raised
  hcCtor,    \* constructor found in the dict
  hcArgs,    \* the tuple (ncells, )*dim
  hcCalls,   \* constructor calls made so far
  hcMesh,    \* the mesh returned
  \* --- Stokes convergence study (SpecStokes) ---
  stDeg,     \* index of the (u_deg, p_deg) pair
  stKk,      \* kk of enumerate(hs)
  stH,       \* the loop variable h
  stMesh,    \* mesh built by the current stokes_solver call
  stPrevMesh,\* mesh built by the previous call
  stEs,      \* Es: the errors (E_u, E_p) of the earlier meshes
  stRate,    \* numerator and denominator arguments of the last rate_u
  stPlot,    \* x data and x label of the convergence plot
  stpc,      \* position in the cell
  \* --- initial guess (SpecGuess) ---
  gLoop,     \* experiment cell
  gIdx,      \* position in its list of n values
  gpc,       \* position in the guess/solve statements
  gVec,      \* entries of the vector of uh
  gX,        \* TRUE once x = uh.vector() is bound to it
  gGuess,    \* the vector the solver was started from for this n
  \* --- Makefile (SpecMake) ---
  mtime,     \* modification time of each file, 0 = does not exist
  clock,     \* current time
  ran,       \* targets whose recipe the last make ran
  mkStatus,  \* exit status of the last make
  edited,    \* sources changed since the last successful make all (all, if cleaned)
  lastOp,    \* "edit", "make" or "clean"
  \* --- Richardson contraction factor (SpecRich) ---
  rAlpha,    \* coercivity constant alpha
  rC,        \* continuity constant C
  rRho,      \* step parameter rho
  rFactor,   \* 1 - 2 rho alpha + rho^2 C^2
  rpc,       \* "start", "factor", "minimum"
  \* --- steepest_descent (SpecSD) ---
  sdA,       \* argument A
  sdB,       \* argument B
  sdb,       \* argument b
  sdx,       \* argument x (updated in place)
  sdTol,     \* argument tolerance
  sdMaxiter, \* argument maxiter
  sdr,       \* local r
  sdErr2,    \* r.inner(r), the square of the local error
  sdIter,    \* local iter
  sdpc       \* "call", "entry", "while", "return", "ZeroDivisionError"

nbVars   == <<nb, mode, cell, stmt, ns, unbound, nbpc, files, sysPath, settings>>
loopVars == <<loop, idx, lpc, hist, out, raised, dofs, niters>>
asmVars  == <<fn, args, apc, mesh, sizes, markers, bcFacets, asserted>>
diagVars == <<matA, matA0, matD, matI, dvec, dpc>>
hcVars   == <<hcDim, hcN, hcpc, hcCtor, hcArgs, hcCalls, hcMesh>>
stVars   == <<stDeg, stKk, stH, stMesh, stPrevMesh, stEs, stRate, stPlot, stpc>>
gVars    == <<gLoop, gIdx, gpc, gVec, gX, gGuess>>
mkVars   == <<mtime, clock, ran, mkStatus, edited, lastOp>>
rVars    == <<rAlpha, rC, rRho, rFactor, rpc>>
sdVars   == <<sdA, sdB, sdb, sdx, sdTol, sdMaxiter, sdr, sdErr2, sdIter, sdpc>>
extVars  == <<hcVars, stVars, gVars, mkVars, rVars, sdVars>>
coreVars == <<nbVars, loopVars, asmVars, diagVars>>
vars     == <<coreVars, extVars>>

(***************************************************************************)
(* Part 1.  Notebook cells as sequences of statements.                     *)
(*   u: global names the statement reads, b: names it binds,               *)
(*   k: "stmt" (functions named in u are called), "def" (u = names read    *)
(*      by the default arguments), "alias" (t = s, nothing is called),     *)
(*   e: side effect outside the namespace.                                 *)
(***************************************************************************)
St(u, b)     == [k |-> "stmt",  u |-> u,   b |-> b,   f |-> "", e |-> "none"]
Eff(u, b, e) == [k |-> "stmt",  u |-> u,   b |-> b,   f |-> "", e |-> e]
Def(f, u)    == [k |-> "def",   u |-> u,   b |-> {f}, f |-> f,  e |-> "none"]
Alias(t, s)  == [k |-> "alias", u |-> {s}, b |-> {t}, f |-> s,  e |-> "none"]
Import(b)    == St({}, b)

\* names present in a fresh Python 2 kernel that the notebooks use
Builtins == {"abs", "len", "range", "zip", "enumerate", "float", "map", "set",
             "dict", "str", "hasattr"}

\* names the notebooks obtain from `from dolfin import *`
DolfinExports ==
  {"UnitIntervalMesh", "UnitSquareMesh", "UnitCubeMesh", "FunctionSpace",
   "TrialFunction", "TestFunction", "TrialFunctions", "TestFunctions",
   "inner", "grad", "div", "curl", "dot", "dx", "Constant", "Expression",
   "DirichletBC", "assemble", "assemble_system", "FacetFunction",
   "CompiledSubDomain", "AutoSubDomain", "DomainBoundary", "Measure",
   "Function", "as_backend_type", "PETScMatrix", "VectorElement",
   "FiniteElement", "MixedElement", "solve", "errornorm", "interpolate",
   "project", "near", "SpatialCoordinate", "FacetNormal",
   "sqrt", "ln", "sin", "cos", "pi"}

(* ------------------------- preconditioning.ipynb ----------------------- *)
\* global names read by the bodies of the functions the notebook defines
Body_HyperCubeMesh == {"UnitIntervalMesh", "UnitSquareMesh", "UnitCubeMesh"}
Body_stiffness_cond ==
  {"HyperCubeMesh", "FunctionSpace", "TrialFunction", "TestFunction", "inner",
   "grad", "dx", "Constant", "DirichletBC", "assemble_system", "np"}
Body_poisson ==
  {"HyperCubeMesh", "FunctionSpace", "TrialFunction", "TestFunction",
   "DirichletBC", "Constant", "FacetFunction", "CompiledSubDomain", "Measure",
   "inner", "grad", "dx", "assemble_system"}
Body_riesz_H1 ==
  {"TrialFunction", "TestFunction", "DirichletBC", "Constant", "inner", "grad",
   "dx", "assemble_system", "AMG"}
Body_riesz_H10 ==
  {"TrialFunction", "TestFunction", "DirichletBC", "Constant", "inner", "grad",
   "dx", "assemble_system", "AMG"}
Body_Diag == {"as_backend_type", "PETSc", "PETScMatrix"}
Body_InvDiag == {"as_backend_type", "PETSc", "PETScMatrix"}
Body_projection ==
  {"HyperCubeMesh", "FunctionSpace", "TrialFunction", "TestFunction", "inner",
   "dx", "Constant", "assemble_system"}
Body_steepest_descent == {"sqrt"}
Body_cd_system_Galerkin ==
  {"UnitSquareMesh", "FunctionSpace", "TrialFunction", "TestFunction",
   "DirichletBC", "Constant", "Expression", "inner", "grad", "dot", "dx",
   "assemble"}
Body_cd_system_SUPG ==
  {"UnitSquareMesh", "FunctionSpace", "TrialFunction", "TestFunction",
   "DirichletBC", "Constant", "Expression", "inner", "grad", "dot", "dx",
   "abs", "assemble", "assemble_system", "AMG"}

\* body shared by the experiment loops: initial guess, solve, count, print
GuessRandom ==
  << St({"Function", "V"}, {"uh"}),
     St({"uh"}, {"x"}),
     St({"x", "np"}, {}) >>
SolveWith(solver, pre) ==
  << St({solver, "A", "x"} \cup pre, {"Ainv"}),
     St({"x", "Ainv", "b"}, {}),
     St({"len", "Ainv"}, {"niters"}),
     St({"n", "A", "niters"}, {}) >>

Cell_HyperCubeMesh ==
  << Import(DolfinExports), Def("HyperCubeMesh", {}) >>
Cell_stiffness_cond ==
  << Import({"np"}), Def("stiffness_cond", {}) >>
Cell_rcParams ==
  << Eff({}, {}, "inline"),
     Import({"matplotlib"}),
     Eff({"matplotlib"}, {}, "figsize_14_8"),
     Eff({"matplotlib"}, {}, "fontsize_14") >>
\* variant: the condition-number plot is also written to disk
Cell_cond_plot_saved ==
  << Import({"plt"}),
     St({}, {"dim"}),
     St({"range"}, {"i"}),
     St({"np", "stiffness_cond", "i"}, {"h", "cond"}),
     St({"plt", "h", "cond"}, {}),
     St({"plt", "h"}, {}),
     St({"plt"}, {}),
     Eff({"plt"}, {}, "savefig") >>
Cell_cond_plot ==
  << Import({"plt"}),
     St({}, {"dim"}),
     St({"range"}, {"i"}),
     St({"np", "stiffness_cond", "i"}, {"h", "cond"}),
     St({"plt", "h", "cond"}, {}),
     St({"plt", "h"}, {}),
     St({"plt"}, {}) >>
Cell_poisson == << Def("poisson", {"Constant"}) >>
Cell_riesz_H1 == << Import({"AMG"}), Def("riesz_H1", {}) >>
Cell_riesz_H10 == << Def("riesz_H10", {}) >>
Cell_Richardson ==
  << Import({"Richardson"}),
     Alias("riesz", "riesz_H10"),
     St({}, {"dim"}),
     St({}, {"n"}),
     St({"poisson", "dim", "n"}, {"A", "b", "V"}),
     St({"riesz", "V"}, {"B"}) >>
  \o GuessRandom
  \o << St({}, {"rho"}) >>
  \o SolveWith("Richardson", {"rho", "B"})
Cell_Diag ==
  << Import({"PETSc"}), Def("Diag", {}), Def("InvDiag", {}) >>
Cell_Jacobi ==
  << St({}, {"dim"}),
     St({}, {"n"}),
     St({"poisson", "dim", "n"}, {"A", "b", "V"}),
     St({"InvDiag", "A"}, {"B"}) >>
  \o GuessRandom
  \o SolveWith("Richardson", {"B"})
Cell_projection == << Def("projection", {}) >>
Cell_projection_experiment ==
  << Import({"eigvalsh"}),
     St({}, {"dim"}),
     St({}, {"n"}),
     St({"projection", "dim", "n"}, {"M", "b", "V"}),
     St({"InvDiag", "M"}, {"B"}),
     St({"dim", "V"}, {}),
     St({"Diag", "M"}, {"Binv"}),
     St({"np", "eigvalsh", "M", "Binv"}, {"lmin", "lmax"}),
     St({"lmin", "lmax"}, {}),
     St({"Function", "V"}, {"uh"}),
     St({"uh"}, {"x"}),
     St({"Richardson", "M", "B", "x"}, {"Ainv"}),
     St({"x", "Ainv", "b"}, {}),
     St({"len", "Ainv"}, {"niters"}),
     St({"dim", "V", "n", "M", "niters"}, {}) >>
Cell_steepest_descent == << Def("steepest_descent", {}) >>
Cell_steepest_descent_experiment ==
  << Alias("riesz", "riesz_H10"),
     St({}, {"dim"}),
     St({}, {"n"}),
     St({"poisson", "dim", "n"}, {"A", "b", "V"}),
     St({"riesz", "V"}, {"B"}) >>
  \o GuessRandom
  \o << St({"steepest_descent", "A", "x", "b", "B"}, {"niters"}),
        St({"n", "A", "niters"}, {}) >>
Cell_ConjGrad ==
  << Import({"ConjGrad"}),
     Alias("riesz", "riesz_H10"),
     St({}, {"dim"}),
     St({}, {"n"}),
     St({"poisson", "dim", "n"}, {"A", "b", "V"}),
     St({"riesz", "V"}, {"B"}) >>
  \o GuessRandom
  \o SolveWith("ConjGrad", {"B"})
Cell_cd_system_Galerkin == << Def("cd_system_Galerkin", {}) >>
Cell_cd_Richardson ==
  << Alias("riesz", "riesz_H1"),
     St({}, {"dim"}),
     St({}, {"n"}),
     St({"cd_system_Galerkin", "n"}, {"A", "b", "V"}),
     St({"riesz", "V"}, {"B"}) >>
  \o GuessRandom
  \o << St({}, {"rho"}) >>
  \o SolveWith("Richardson", {"rho", "B"})
Cell_cd_LGMRES ==
  << Import({"LGMRES"}),
     Alias("riesz", "riesz_H1"),
     St({}, {"dim"}),
     St({}, {"n"}),
     St({"cd_system_Galerkin", "n"}, {"A", "b", "V"}),
     St({"riesz", "V"}, {"B"}) >>
  \o GuessRandom
  \o SolveWith("LGMRES", {"B"})
Cell_cd_system_SUPG == << Def("cd_system_SUPG", {}) >>
Cell_SUPG_LGMRES ==
  << St({}, {"n"}),
     St({"cd_system_SUPG", "n"}, {"A", "b", "B", "V"}) >>
  \o GuessRandom
  \o SolveWith("LGMRES", {"B"})

\* variant: the cell defining poisson placed before the dolfin import
PrecondCells_reordered ==
  << Cell_poisson, Cell_HyperCubeMesh, Cell_stiffness_cond, Cell_rcParams,
     Cell_cond_plot, Cell_riesz_H1, Cell_riesz_H10, Cell_Richardson, Cell_Diag,
     Cell_Jacobi, Cell_projection, Cell_projection_experiment,
     Cell_steepest_descent, Cell_steepest_descent_experiment, Cell_ConjGrad,
     Cell_cd_system_Galerkin, Cell_cd_Richardson, Cell_cd_LGMRES,
     Cell_cd_system_SUPG, Cell_SUPG_LGMRES >>
\* variant: the steepest descent experiment placed before the definition it calls
PrecondCells_swapped ==
  << Cell_HyperCubeMesh, Cell_stiffness_cond, Cell_rcParams, Cell_cond_plot,
     Cell_poisson, Cell_riesz_H1, Cell_riesz_H10, Cell_Richardson, Cell_Diag,
     Cell_Jacobi, Cell_projection, Cell_projection_experiment,
     Cell_steepest_descent_experiment, Cell_steepest_descent, Cell_ConjGrad,
     Cell_cd_system_Galerkin, Cell_cd_Richardson, Cell_cd_LGMRES,
     Cell_cd_system_SUPG, Cell_SUPG_LGMRES >>
PrecondCells ==
  << Cell_HyperCubeMesh, Cell_stiffness_cond, Cell_rcParams, Cell_cond_plot,
     Cell_poisson, Cell_riesz_H1, Cell_riesz_H10, Cell_Richardson, Cell_Diag,
     Cell_Jacobi, Cell_projection, Cell_projection_experiment,
     Cell_steepest_descent, Cell_steepest_descent_experiment, Cell_ConjGrad,
     Cell_cd_system_Galerkin, Cell_cd_Richardson, Cell_cd_LGMRES,
     Cell_cd_system_SUPG, Cell_SUPG_LGMRES >>

(* ------------------------------ coupled.ipynb -------------------------- *)
Body_expr_body == {"hasattr", "set", "symbols", "ccode", "dict", "str", "expr_body"}
Body_as_expression == {"Expression", "expr_body"}
Body_mixed_poisson ==
  {"UnitSquareMesh", "VectorElement", "FiniteElement", "FunctionSpace",
   "MixedElement", "TrialFunctions", "TestFunctions", "inner", "grad", "dx",
   "DirichletBC", "Constant", "Function", "solve"}
Body_mixed_poisson_block ==
  {"UnitSquareMesh", "VectorElement", "FiniteElement", "FunctionSpace", "map",
   "TrialFunction", "TestFunction", "inner", "grad", "dx", "block_assemble",
   "Constant", "DirichletBC", "block_bc", "assemble", "assemble_system", "AMG",
   "block_mat", "Function", "block_vec", "MinRes", "len"}
Body_hs_norm ==
  {"FunctionSpace", "DirichletBC", "Constant", "TrialFunction", "TestFunction",
   "interpolate", "inner", "grad", "dx", "assemble_system", "eigh", "np", "sqrt"}
Body_babuska ==
  {"UnitSquareMesh", "FacetFunction", "EmbeddedMesh", "FunctionSpace",
   "TrialFunction", "TestFunction", "Measure", "inner", "grad", "dx",
   "assemble", "trace_assemble", "block_mat", "block_vec", "AMG",
   "inv_interpolation_norm_eig", "MinRes", "Function", "len"}

\* manufactured solution and the convergence loop shared by the two studies
ManufacturedSetup ==
  << Import({"sp"}),
     St({"sp"}, {"x", "y"}),
     St({"x", "y", "sp"}, {"u"}),
     St({"u", "x", "y"}, {"f"}),
     St({"u", "x", "y"}, {"sigma"}),
     St({"map", "as_expression", "u", "f", "sigma"}, {"u", "f", "sigma"}),
     St({}, {"hs", "sigmas", "us"}),
     St({}, {"n"}) >>
ConvergenceTail(printed) ==
  << St({"errornorm", "sigma", "sigmah", "u", "uh"}, {"es", "eu"}),
     St({"hs"}, {}),
     St({"ln", "es", "sigmas", "h", "hs"}, {"rates"}),
     St({"ln", "eu", "us", "h", "hs"}, {"rateu"}),
     St({}, {"rates", "rateu"}),
     St({"es", "rates", "eu", "rateu"} \cup printed, {}),
     St({"hs", "h", "sigmas", "es", "us", "eu"}, {}) >>

Cell_as_expression ==
  << Import({"Expression"}), Import({"ccode"}), Import({"symbols"}),
     Def("expr_body", {}), Def("as_expression", {}) >>
Cell_mixed_poisson ==
  << Import(DolfinExports), Def("mixed_poisson", {}) >>
Cell_mixed_poisson_convergence ==
  ManufacturedSetup
  \o << St({"mixed_poisson", "n", "f"}, {"h", "sigmah", "uh"}) >>
  \o ConvergenceTail({})
Cell_mixed_poisson_block ==
  << Import({"block_bc", "block_assemble", "block_mat", "block_vec"}),
     Import({"MinRes"}),
     Import({"AMG", "Jacobi"}),
     Def("mixed_poisson_block", {}) >>
Cell_mixed_poisson_block_experiment ==
  ManufacturedSetup
  \o << St({"mixed_poisson_block", "n", "f"}, {"h", "sigmah", "uh", "niters"}) >>
  \o ConvergenceTail({"niters"})
Cell_spectrum ==
  << Import({"plt"}),
     Eff({}, {}, "inline"),
     Import({"np"}),
     St({"np"}, {"x"}),
     St({"np", "x"}, {"f"}),
     St({"sqrt"}, {"A"}),
     St({}, {"k_max"}),
     St({"np", "k_max"}, {"ks"}),
     St({"np", "ks", "float"}, {"spectrum"}),
     St({"ks"}, {"k"}),
     St({"A", "cos", "k", "pi"}, {"ck"}),
     St({"spectrum", "k", "abs", "ck"}, {}),
     St({"f", "ck", "A", "np", "k", "pi", "x"}, {"f"}),
     St({"np", "spectrum"}, {"mask"}),
     St({"plt", "ks", "mask", "spectrum"}, {}),
     St({"plt", "ks"}, {}) >>
Cell_hs_norm == << Import({"eigh"}), Def("hs_norm", {}) >>
Cell_hs_norm_verification ==
  << St({"range"}, {"i"}),
     St({"UnitIntervalMesh", "i"}, {"mesh"}),
     St({"Measure", "mesh"}, {"dX"}),
     St({"FunctionSpace", "mesh"}, {"V"}),
     St({"interpolate", "Expression", "V"}, {"f"}),
     St({"sqrt", "assemble", "inner", "f", "dX"}, {"L2"}),
     St({"sqrt", "assemble", "inner", "f", "dX"}, {"H10"}),
     St({"hs_norm", "mesh", "f"}, {"L2_"}),
     St({"hs_norm", "mesh", "f"}, {"H10_"}),
     St({"abs", "L2", "L2_", "H10", "H10_"}, {}) >>
Cell_babuska ==
  << Import({"sys"}),
     Eff({"sys"}, {}, "syspath"),
     Import(DolfinExports),
     Import({"trace_assemble"}),
     Import({"inv_interpolation_norm_eig"}),
     Import({"EmbeddedMesh"}),
     Import({"block_mat", "block_vec"}),
     Import({"MinRes"}),
     Import({"AMG"}),
     Def("babuska", {}) >>
Cell_babuska_experiment ==
  << St({"CompiledSubDomain"}, {"gamma"}),
     St({"Expression"}, {"f"}),
     St({"Expression"}, {"g"}),
     St({}, {"n"}),
     St({"babuska", "n", "f", "g", "gamma"}, {}) >>

CoupledCells ==
  << Cell_as_expression, Cell_mixed_poisson, Cell_mixed_poisson_convergence,
     Cell_mixed_poisson_block, Cell_mixed_poisson_block_experiment,
     Cell_spectrum, Cell_hs_norm, Cell_hs_norm_verification, Cell_babuska,
     Cell_babuska_experiment >>

(* ------------------------------ Stokes exercise ------------------------ *)
Body_stokes_solver ==
  {"UnitSquareMesh", "near", "FacetFunction", "DomainBoundary",
   "AutoSubDomain", "SpatialCoordinate", "sin", "pi", "curl", "div", "grad",
   "Measure", "FacetNormal", "VectorElement", "FiniteElement", "FunctionSpace",
   "project", "DirichletBC", "TrialFunctions", "TestFunctions", "inner", "dx",
   "Constant", "Function", "solve", "errornorm"}

Cell_stokes_setup ==
  << Import(DolfinExports),
     Import({"plt"}),
     Import({"np"}),
     St({}, {"fig_size"}),
     Eff({}, {}, "inline"),
     Eff({"plt", "fig_size"}, {}, "figsize_24_24") >>
Cell_stokes_solver == << Def("stokes_solver", {}) >>
Cell_stokes_convergence ==
  << St({}, {"hs"}),
     St({}, {"errors"}),
     St({}, {"u_deg", "p_deg"}),
     St({"u_deg", "p_deg"}, {}),
     St({}, {"Es"}),
     St({"enumerate", "hs"}, {"kk", "h"}),
     St({"stokes_solver", "h", "u_deg", "p_deg"}, {"u", "p", "mesh", "E_u", "E_p"}),
     St({"Es"}, {}),
     St({"float", "h"}, {"h"}),
     St({"Es"}, {"E_u0", "E_p0"}),
     St({"ln", "E_u", "E_u0", "h", "hs", "kk"}, {"rate_u"}),
     St({"ln", "E_p", "E_p0", "h", "hs", "kk"}, {"rate_p"}),
     St({"np"}, {"rate_u", "rate_p"}),
     St({"E_u", "rate_u", "E_p", "rate_p"}, {}),
     St({"Es", "E_u", "E_p"}, {}),
     St({"errors", "Es"}, {}),
     St({"np", "errors"}, {"errors"}) >>
Cell_stokes_plot ==
  << St({"plt"}, {"fig", "ax"}),
     St({"ax"}, {"ax"}),
     St({"zip", "range"}, {"i", "j", "k"}),
     St({"i", "ax"}, {}),
     St({"np", "hs", "errors", "j", "k"}, {"a", "b"}),
     St({"ax", "i", "hs", "errors", "j", "k"}, {}),
     St({"ax", "i"}, {}),
     St({"a"}, {"slope_str"}),
     St({"ax", "i", "slope_str"}, {}),
     St({"ax", "i"}, {"tick"}),
     St({"tick"}, {}),
     St({"ax", "i"}, {"tick"}),
     St({"tick"}, {}),
     Eff({"fig"}, {}, "savefig") >>

StokesCells ==
  << Cell_stokes_setup, Cell_stokes_solver, Cell_stokes_convergence,
     Cell_stokes_plot >>

(* ------------------------------ the kernel ----------------------------- *)
Notebooks == {"preconditioning", "coupled", "stokes"}

Cells(book) ==
  CASE book = "preconditioning" -> PrecondCells
    [] book = "coupled"         -> CoupledCells
    [] book = "stokes"          -> StokesCells

UserFunctions ==
  {"HyperCubeMesh", "stiffness_cond", "poisson", "riesz_H1", "riesz_H10",
   "Diag", "InvDiag", "projection", "steepest_descent", "cd_system_Galerkin",
   "cd_system_SUPG", "expr_body", "as_expression", "mixed_poisson",
   "mixed_poisson_block", "hs_norm", "babuska", "stokes_solver"}

Body(f) ==
  CASE f = "HyperCubeMesh"       -> Body_HyperCubeMesh
    [] f = "stiffness_cond"      -> Body_stiffness_cond
    [] f = "poisson"             -> Body_poisson
    [] f = "riesz_H1"            -> Body_riesz_H1
    [] f = "riesz_H10"           -> Body_riesz_H10
    [] f = "Diag"                -> Body_Diag
    [] f = "InvDiag"             -> Body_InvDiag
    [] f = "projection"          -> Body_projection
    [] f = "steepest_descent"    -> Body_steepest_descent
    [] f = "cd_system_Galerkin"  -> Body_cd_system_Galerkin
    [] f = "cd_system_SUPG"      -> Body_cd_system_SUPG
    [] f = "expr_body"           -> Body_expr_body
    [] f = "as_expression"       -> Body_as_expression
    [] f = "mixed_poisson"       -> Body_mixed_poisson
    [] f = "mixed_poisson_block" -> Body_mixed_poisson_block
    [] f = "hs_norm"             -> Body_hs_norm
    [] f = "babuska"             -> Body_babuska
    [] f = "stokes_solver"       -> Body_stokes_solver

\* user functions the names in N are bound to in namespace s
FunctionsOf(N, s) == {s[x] : x \in {y \in N \cap DOMAIN s : s[y] \in UserFunctions}}
BodyNames(F) == UNION {Body(f) : f \in F}

\* user functions whose bodies run when the functions in F are called
RECURSIVE CallClosure(_, _)
CallClosure(F, s) ==
  LET G == F \cup FunctionsOf(BodyNames(F), s)
  IN  IF G = F THEN F ELSE CallClosure(G, s)

\* global names looked up while statement st executes in namespace s:
\* Python resolves the globals of a function body when the body runs
Lookups(st, s) ==
  IF st.k = "stmt"
  THEN st.u \cup BodyNames(CallClosure(FunctionsOf(st.u, s), s))
  ELSE st.u

Missing(st, s) == Lookups(st, s) \ DOMAIN s

\* namespace after the statement's bindings
Bind(st, s) ==
  [x \in DOMAIN s \cup st.b |->
     IF x \in st.b
     THEN CASE st.k = "def"   -> st.f
            [] st.k = "alias" -> s[st.f]
            [] OTHER          -> "val"
     ELSE s[x]]

FreshNamespace == [x \in Builtins |-> "val"]
DefaultSettings == [backend |-> "default", figsize |-> "default", fontsize |-> "default"]
FenicsIIPath == "/home/miro3/Documents/Programming/fenics_ii/py"
StokesPNG == "stokes_exercise.png"

SettingsAfter(e, s) ==
  CASE e = "inline"        -> [s EXCEPT !.backend = "inline"]
    [] e = "figsize_14_8"  -> [s EXCEPT !.figsize = "14x8"]
    [] e = "figsize_24_24" -> [s EXCEPT !.figsize = "24x24"]
    [] e = "fontsize_14"   -> [s EXCEPT !.fontsize = "14"]
    [] OTHER               -> s
FilesAfter(e, fs) == IF e = "savefig" THEN fs \cup {StokesPNG} ELSE fs
SysPathAfter(e, p) == IF e = "syspath" THEN Append(p, FenicsIIPath) ELSE p

CurCell == Cells(nb)[cell]
CurStmt == CurCell[stmt]
NoName == {}

\* idle values of the variables a specification does not use
NoRaise == [n |-> 0, at |-> "none"]
LoopIdle ==
  /\ loop = "none" /\ idx = 0 /\ lpc = 0 /\ hist = <<>> /\ out = <<>>
  /\ raised = NoRaise /\ dofs = 0 /\ niters = 0
NoMesh == [ctor |-> "none", cells |-> <<>>]
NoSizes == [A |-> <<0, 0>>, B |-> <<0, 0>>, b |-> 0]
AsmIdle ==
  /\ fn = "none" /\ args = <<>> /\ apc = "idle" /\ mesh = NoMesh /\ sizes = NoSizes
  /\ markers = <<>> /\ bcFacets = {} /\ asserted = <<>>
DiagIdle ==
  /\ matA = <<>> /\ matA0 = <<>> /\ matD = <<>> /\ matI = <<>> /\ dvec = <<>>
  /\ dpc = "idle"
NBIdle ==
  /\ nb = "none" /\ mode = "none" /\ cell = 0 /\ stmt = 0 /\ ns = <<>>
  /\ unbound = NoName /\ nbpc = "idle" /\ files = {} /\ sysPath = <<>>
  /\ settings = DefaultSettings

HCIdle ==
  /\ hcDim = 0 /\ hcN = 0 /\ hcpc = "idle" /\ hcCtor = "none" /\ hcArgs = <<>>
  /\ hcCalls = <<>> /\ hcMesh = NoMesh
StokesIdle ==
  /\ stDeg = 0 /\ stKk = 0 /\ stH = 0 /\ stMesh = NoMesh /\ stPrevMesh = NoMesh
  /\ stEs = <<>> /\ stRate = <<>> /\ stPlot = <<>> /\ stpc = "idle"
GuessIdle ==
  /\ gLoop = "none" /\ gIdx = 0 /\ gpc = 0 /\ gVec = <<>> /\ gX = FALSE
  /\ gGuess = <<>>
MakeIdle ==
  /\ mtime = <<>> /\ clock = 0 /\ ran = {} /\ mkStatus = 0 /\ edited = {}
  /\ lastOp = "none"
RichIdle ==
  /\ rAlpha = <<>> /\ rC = <<>> /\ rRho = <<>> /\ rFactor = <<>> /\ rpc = "idle"
SDIdle ==
  /\ sdA = <<>> /\ sdB = <<>> /\ sdb = <<>> /\ sdx = <<>> /\ sdTol = <<>>
  /\ sdMaxiter = 0 /\ sdr = <<>> /\ sdErr2 = <<>> /\ sdIter = 0 /\ sdpc = "idle"
CoreIdle == NBIdle /\ LoopIdle /\ AsmIdle /\ DiagIdle
ExtIdle == HCIdle /\ StokesIdle /\ GuessIdle /\ MakeIdle /\ RichIdle /\ SDIdle

InitNB ==
  /\ nb \in Notebooks
  /\ mode \in {"top", "fresh"}
  /\ cell \in 1..Len(Cells(nb))
  /\ mode = "top" => cell = 1
  /\ stmt = 1
  /\ ns = FreshNamespace
  /\ unbound = NoName
  /\ nbpc = "run"
  /\ files = {} /\ sysPath = <<>> /\ settings = DefaultSettings
  /\ LoopIdle /\ AsmIdle /\ DiagIdle /\ ExtIdle

\* one statement of the current cell executes
RunStatement ==
  /\ nbpc = "run" /\ stmt <= Len(CurCell)
  /\ Missing(CurStmt, ns) = {}
  /\ ns' = Bind(CurStmt, ns)
  /\ settings' = SettingsAfter(CurStmt.e, settings)
  /\ files' = FilesAfter(CurStmt.e, files)
  /\ sysPath' = SysPathAfter(CurStmt.e, sysPath)
  /\ stmt' = stmt + 1
  /\ UNCHANGED <<nb, mode, cell, unbound, nbpc>>
  /\ UNCHANGED <<loopVars, asmVars, diagVars, extVars>>

\* a name lookup fails: NameError propagates and the cell stops
RaiseNameError ==
  /\ nbpc = "run" /\ stmt <= Len(CurCell)
  /\ Missing(CurStmt, ns) # {}
  /\ unbound' = Missing(CurStmt, ns)
  /\ nbpc' = "error"
  /\ UNCHANGED <<nb, mode, cell, stmt, ns, files, sysPath, settings>>
  /\ UNCHANGED <<loopVars, asmVars, diagVars, extVars>>

\* top-to-bottom execution moves on to the next code cell
NextCell ==
  /\ nbpc = "run" /\ mode = "top"
  /\ stmt > Len(CurCell) /\ cell < Len(Cells(nb))
  /\ cell' = cell + 1 /\ stmt' = 1
  /\ UNCHANGED <<nb, mode, ns, unbound, nbpc, files, sysPath, settings>>
  /\ UNCHANGED <<loopVars, asmVars, diagVars, extVars>>

\* the last cell to run has completed
FinishNB ==
  /\ nbpc = "run"
  /\ stmt > Len(CurCell)
  /\ mode = "fresh" \/ cell = Len(Cells(nb))
  /\ nbpc' = "done"
  /\ UNCHANGED <<nb, mode, cell, stmt, ns, unbound, files, sysPath, settings>>
  /\ UNCHANGED <<loopVars, asmVars, diagVars, extVars>>

NextNB == RunStatement \/ RaiseNameError \/ NextCell \/ FinishNB
SpecNB == InitNB /\ [][NextNB]_vars

(* ------------------------ claims on the kernel ------------------------- *)
\* the statement at position k of cell c has been executed
Past(c, k) ==
  /\ cell = c \/ (mode = "top" /\ cell > c)
  /\ cell = c => stmt > k

\* names bound by the statements of the cells before cell c of notebook book
BoundByEarlier(book, c) ==
  UNION {UNION {Cells(book)[d][k].b : k \in 1..Len(Cells(book)[d])} :
           d \in 1..(c - 1)}

\* C1: running the code cells of a notebook once from top to bottom never
\* looks up a name that the same cell or an earlier cell has not bound.
C1_TopToBottomBound ==
  mode = "top" => (unbound = NoName /\ nbpc # "error")
C1_Witness ==
  /\ mode = "top" /\ nbpc = "done" /\ nb = "preconditioning"
  /\ {"riesz", "Ainv", "niters"} \subseteq DOMAIN ns

\* C4 as stated: no cell writes a file or changes the module search path
\* or the plotting defaults.
C4_NoSideEffects ==
  files = {} /\ sysPath = <<>> /\ settings = DefaultSettings
\* C4 amended: the only file written is stokes_exercise.png (by the last
\* statement of the Stokes plot cell), the only change of sys.path is the
\* append in the babuska cell of coupled.ipynb, and the plotting defaults
\* change only in the cells with %matplotlib inline / rcParams assignments.
C4_SideEffectSites ==
  /\ files \subseteq {StokesPNG}
  /\ files # {} <=> (nb = "stokes" /\ Past(4, 14))
  /\ sysPath \in {<<>>, <<FenicsIIPath>>}
  /\ sysPath # <<>> <=> (nb = "coupled" /\ Past(9, 2))
  /\ settings # DefaultSettings <=>
       \/ nb = "preconditioning" /\ Past(3, 1)
       \/ nb = "coupled" /\ Past(6, 2)
       \/ nb = "stokes" /\ Past(1, 5)
C4_Witness ==
  /\ nb = "stokes" /\ mode = "top" /\ nbpc = "done"
  /\ files = {StokesPNG} /\ settings.figsize = "24x24"

\* C5 as stated: every code cell completes when run alone on a fresh kernel.
C5_SelfContained ==
  mode = "fresh" => nbpc # "error"
\* C5 amended: a code cell run alone on a fresh kernel either completes or
\* stops with a NameError, and then every name it fails to find is bound by
\* an earlier code cell of the same notebook.
C5_DependsOnEarlierCells ==
  (mode = "fresh" /\ nbpc = "error") =>
     (unbound # NoName /\ unbound \subseteq BoundByEarlier(nb, cell))
C5_Witness ==
  /\ mode = "fresh" /\ nbpc = "error" /\ nb = "preconditioning"
  /\ cell = 14 /\ "riesz_H10" \in unbound

(***************************************************************************)
(* Part 2.  The solver experiment loops of preconditioning.ipynb.          *)
(***************************************************************************)
MaxNiters == 1   \* iteration counts a solver may report: 0..MaxNiters

Loops == {"Richardson", "Jacobi", "projection", "steepest_descent", "ConjGrad",
          "cd_Richardson", "cd_LGMRES", "SUPG_LGMRES"}

\* the tuple of mesh parameters of each loop
NList(l) ==
  CASE l = "projection"    -> <<2, 4, 8, 16, 32>>
    [] l = "cd_Richardson" -> <<8, 16, 32, 64, 128>>
    [] OTHER               -> <<8, 16, 32, 64, 128, 256, 512>>

\* dimension of the mesh each loop works on
Dim(l) ==
  CASE l = "Jacobi"     -> 1
    [] l = "projection" -> 3
    [] OTHER            -> 2

\* variant: the result line is printed before the solver has run
LoopBody_print_first(l) ==
  IF l = "projection"
  THEN <<"assemble", "precond", "cond", "guess", "print", "solve">>
  ELSE <<"assemble", "precond", "guess", "print", "solve">>
\* the statements of one iteration, in program order
LoopBody(l) ==
  IF l = "projection"
  THEN <<"assemble", "precond", "cond", "guess", "solve", "print">>
  ELSE <<"assemble", "precond", "guess", "solve", "print">>

RECURSIVE Pow(_, _)
Pow(a, k) == IF k = 0 THEN 1 ELSE a * Pow(a, k - 1)
\* dimension of the P1 space on the unit hypercube with n cells per direction
Dofs(d, n) == Pow(n + 1, d)

CurN == NList(loop)[idx]
\* lpc: 1.. = position in the body, 0 = cell completed, -1 = stopped by an exception
Running == loop \in Loops /\ lpc >= 1
AtStep(s) == Running /\ lpc <= Len(LoopBody(loop)) /\ LoopBody(loop)[lpc] = s

InitLoop ==
  /\ loop \in Loops
  /\ idx = 1 /\ lpc = 1 /\ hist = <<>> /\ out = <<>>
  /\ raised = NoRaise /\ dofs = 0 /\ niters = 0
  /\ NBIdle /\ AsmIdle /\ DiagIdle /\ ExtIdle

\* A, b, V = poisson(dim, n) | projection(dim, n) | cd_system_Galerkin(n) |
\* the first half of cd_system_SUPG(n)
Assemble ==
  /\ AtStep("assemble")
  /\ dofs' = Dofs(Dim(loop), CurN)
  /\ hist' = Append(hist, "assemble")
  /\ lpc' = lpc + 1
  /\ UNCHANGED <<loop, idx, out, raised, niters>>
  /\ UNCHANGED <<nbVars, asmVars, diagVars, extVars>>

\* B = riesz(V) | InvDiag(A) | the second half of cd_system_SUPG(n)
BuildPreconditioner ==
  /\ AtStep("precond")
  /\ hist' = Append(hist, "precond")
  /\ lpc' = lpc + 1
  /\ UNCHANGED <<loop, idx, out, raised, dofs, niters>>
  /\ UNCHANGED <<nbVars, asmVars, diagVars, extVars>>

\* projection experiment: condition number printed for small systems only
ConditionNumber ==
  /\ AtStep("cond")
  /\ out' = IF Dim(loop) < 3 \/ dofs < 5000
            THEN Append(out, [kind |-> "cond", n |-> CurN, dofs |-> dofs, niters |-> 0])
            ELSE out
  /\ hist' = Append(hist, "cond")
  /\ lpc' = lpc + 1
  /\ UNCHANGED <<loop, idx, raised, dofs, niters>>
  /\ UNCHANGED <<nbVars, asmVars, diagVars, extVars>>

\* uh = Function(V); x = uh.vector(); (x.set_local(random))
InitialGuess ==
  /\ AtStep("guess")
  /\ hist' = Append(hist, "guess")
  /\ lpc' = lpc + 1
  /\ UNCHANGED <<loop, idx, out, raised, dofs, niters>>
  /\ UNCHANGED <<nbVars, asmVars, diagVars, extVars>>

\* Ainv = Solver(...); x[:] = Ainv*b; niters = len(Ainv.residuals)-1
Solve ==
  /\ AtStep("solve")
  /\ \E k \in 0..MaxNiters : niters' = k
  /\ hist' = Append(hist, "solve")
  /\ lpc' = lpc + 1
  /\ UNCHANGED <<loop, idx, out, raised, dofs>>
  /\ UNCHANGED <<nbVars, asmVars, diagVars, extVars>>

\* print 'n = %d, dofs = %d, niters = %d' % (n, A.size(0), niters)
PrintResult ==
  /\ AtStep("print")
  /\ out' = Append(out, [kind |-> "result", n |-> CurN, dofs |-> dofs, niters |-> niters])
  /\ hist' = Append(hist, "print")
  /\ lpc' = lpc + 1
  /\ UNCHANGED <<loop, idx, raised, dofs, niters>>
  /\ UNCHANGED <<nbVars, asmVars, diagVars, extVars>>

\* variant: the exception is swallowed and the loop goes on with the next n
RaiseInLoop_caught ==
  /\ Running /\ lpc <= Len(LoopBody(loop))
  /\ LoopBody(loop)[lpc] # "print"
  /\ raised' = [n |-> CurN, at |-> LoopBody(loop)[lpc]]
  /\ lpc' = Len(LoopBody(loop)) + 1
  /\ UNCHANGED <<loop, idx, hist, out, dofs, niters>>
  /\ UNCHANGED <<nbVars, asmVars, diagVars, extVars>>
\* a library call or an assert of the current statement raises; nothing
\* catches it, so the cell stops
RaiseInLoop ==
  /\ Running /\ lpc <= Len(LoopBody(loop))
  /\ LoopBody(loop)[lpc] # "print"
  /\ raised' = [n |-> CurN, at |-> LoopBody(loop)[lpc]]
  /\ lpc' = -1
  /\ UNCHANGED <<loop, idx, hist, out, dofs, niters>>
  /\ UNCHANGED <<nbVars, asmVars, diagVars, extVars>>

\* for n in (...): next value
NextIteration ==
  /\ Running /\ lpc > Len(LoopBody(loop))
  /\ idx < Len(NList(loop))
  /\ idx' = idx + 1 /\ lpc' = 1 /\ hist' = <<>>
  /\ UNCHANGED <<loop, out, raised, dofs, niters>>
  /\ UNCHANGED <<nbVars, asmVars, diagVars, extVars>>

\* the tuple is exhausted: the cell completes
LoopDone ==
  /\ Running /\ lpc > Len(LoopBody(loop))
  /\ idx = Len(NList(loop))
  /\ lpc' = 0
  /\ UNCHANGED <<loop, idx, hist, out, raised, dofs, niters>>
  /\ UNCHANGED <<nbVars, asmVars, diagVars, extVars>>

NextLoop ==
  \/ Assemble \/ BuildPreconditioner \/ ConditionNumber \/ InitialGuess
  \/ Solve \/ PrintResult \/ RaiseInLoop \/ NextIteration \/ LoopDone
SpecLoop == InitLoop /\ [][NextLoop]_vars

(* ------------------------- claims on the loops ------------------------- *)
RECURSIVE Select(_, _)
\* the events of h that are in set K, in order
Select(h, K) ==
  IF h = <<>> THEN <<>>
  ELSE IF Head(h) \in K THEN <<Head(h)>> \o Select(Tail(h), K)
       ELSE Select(Tail(h), K)
RECURSIVE ResultNs(_)
\* the n values of the result lines of o, in order
ResultNs(o) ==
  IF o = <<>> THEN <<>>
  ELSE IF Head(o).kind = "result" THEN <<Head(o).n>> \o ResultNs(Tail(o))
       ELSE ResultNs(Tail(o))
IsPrefix(a, b) == Len(a) <= Len(b) /\ a = SubSeq(b, 1, Len(a))
StepOrder == <<"assemble", "precond", "guess", "solve", "print">>

\* C2: in every experiment loop the steps of an iteration happen in the
\* order assemble, preconditioner, initial guess, solve, print, and the
\* result lines printed are one per n, in the order of the tuple of n values.
C2_OrderAndOneLinePerN ==
  loop \in Loops =>
    /\ IsPrefix(Select(hist, {"assemble", "precond", "guess", "solve", "print"}), StepOrder)
    /\ IsPrefix(ResultNs(out), NList(loop))
    /\ Len(ResultNs(out)) = (IF lpc = 0 \/ lpc > Len(LoopBody(loop)) THEN idx ELSE idx - 1)
    /\ (lpc = 0 => ResultNs(out) = NList(loop))
    /\ \A i \in 1..Len(out) :
         out[i].kind = "result" => out[i].dofs = Dofs(Dim(loop), out[i].n)
C2_Witness ==
  /\ loop = "projection" /\ lpc = 0 /\ Len(out) = 9
  /\ ResultNs(out) = <<2, 4, 8, 16, 32>>

\* C3: when a statement of the iteration for n raises, the cell stops there:
\* the output holds exactly the result lines of the n values before n, none
\* for n or a later value, and nothing runs afterwards.
C3_RaiseStopsCell ==
  raised # NoRaise =>
    /\ lpc = -1
    /\ raised.n = NList(loop)[idx]
    /\ ResultNs(out) = SubSeq(NList(loop), 1, idx - 1)
    /\ ~ENABLED NextLoop
C3_Witness ==
  /\ raised # NoRaise /\ loop = "projection" /\ raised.at = "solve"
  /\ idx = 3 /\ Len(out) = 5

(***************************************************************************)
(* Part 3.  Meshes, guards, matrix dimensions and boundary markers.        *)
(***************************************************************************)
MaxN == 5          \* cd_system_SUPG is run for n in 1..MaxN
MaxEpsExp == 2     \* and for epsilon = 10^-k, k in 0..MaxEpsExp
MaxFacetN == 3     \* poisson is run for n in 1..MaxFacetN, dim in 1..3

\* the dolfin mesh constructors: cells per direction
UnitIntervalMesh(nx) == [ctor |-> "UnitIntervalMesh", cells |-> <<nx>>]
UnitSquareMesh(nx, ny) == [ctor |-> "UnitSquareMesh", cells |-> <<nx, ny>>]
UnitCubeMesh(nx, ny, nz) == [ctor |-> "UnitCubeMesh", cells |-> <<nx, ny, nz>>]

\* the dict {1: UnitIntervalMesh, 2: UnitSquareMesh, 3: UnitCubeMesh}
MeshConstructors == <<"UnitIntervalMesh", "UnitSquareMesh", "UnitCubeMesh">>
\* variant: ncells is passed once whatever the dimension
TupleTimes_once(x, k) == <<x>>
\* (x, )*k: the tuple holding x k times
TupleTimes(x, k) == [i \in 1..k |-> x]
\* number of cell counts each constructor takes
Arity(ctor) ==
  CASE ctor = "UnitIntervalMesh" -> 1
    [] ctor = "UnitSquareMesh"   -> 2
    [] ctor = "UnitCubeMesh"     -> 3
\* ctor(*a)
CallConstructor(ctor, a) ==
  CASE ctor = "UnitIntervalMesh" -> UnitIntervalMesh(a[1])
    [] ctor = "UnitSquareMesh"   -> UnitSquareMesh(a[1], a[2])
    [] ctor = "UnitCubeMesh"     -> UnitCubeMesh(a[1], a[2], a[3])

\* value returned by HyperCubeMesh for a dimension the dict has
HyperCubeMesh(d, ncells) ==
  CallConstructor(MeshConstructors[d], TupleTimes(ncells, d))

RECURSIVE ProdPlus(_, _)
\* product of (p*c + 1) over the entries c of cs
ProdPlus(cs, p) == IF cs = <<>> THEN 1 ELSE (p * Head(cs) + 1) * ProdPlus(Tail(cs), p)
\* mesh.num_vertices(), mesh.geometry().dim()
NumVertices(m) == ProdPlus(m.cells, 1)
GeometryDim(m) == Len(m.cells)

\* FunctionSpace(mesh, 'CG', p) and its dimension
FunctionSpace(m, family, p) == [mesh |-> m, family |-> family, degree |-> p]
SpaceDim(V) == ProdPlus(V.mesh.cells, V.degree)
\* dimensions of an assembled bilinear form (test, trial) and linear form
AssembleMatrix(test, trial) == <<SpaceDim(test), SpaceDim(trial)>>
AssembleVector(test) == SpaceDim(test)

\* range(a, b)
Range(a, b) == [k \in 1..(b - a) |-> a + k - 1]

(* ---- stiffness_cond and the cell calling it ---- *)
\* variant: the cell passes dimension 2
StiffnessArgs_dim2(i) == [i |-> i, dim |-> 2, n |-> Pow(2, i), s |-> 0, eps |-> 0]
\* stiffness_cond(1, 2**i)
StiffnessArgs(i) == [i |-> i, dim |-> 1, n |-> Pow(2, i), s |-> 0, eps |-> 0]
StiffnessRange == Range(2, 11)
HsRange == Range(3, 11)

SC_Mesh ==
  /\ fn = "stiffness_cond" /\ apc = "mesh"
  /\ mesh' = HyperCubeMesh(args.dim, args.n)
  /\ apc' = "assert"
  /\ UNCHANGED <<fn, args, sizes, markers, bcFacets, asserted>>
  /\ UNCHANGED <<nbVars, loopVars, diagVars, extVars>>

\* assert mesh.num_vertices() < 5000
SC_Assert ==
  /\ fn = "stiffness_cond" /\ apc = "assert"
  /\ asserted' = Append(asserted, NumVertices(mesh) < 5000)
  /\ apc' = IF NumVertices(mesh) < 5000 THEN "body" ELSE "AssertionError"
  /\ UNCHANGED <<fn, args, mesh, sizes, markers, bcFacets>>
  /\ UNCHANGED <<nbVars, loopVars, diagVars, extVars>>

SC_Body ==
  /\ fn = "stiffness_cond" /\ apc = "body"
  /\ mesh' = HyperCubeMesh(args.dim, args.n)
  /\ LET V == FunctionSpace(mesh', "CG", 1)
     IN  sizes' = [sizes EXCEPT !.A = AssembleMatrix(V, V)]
  /\ apc' = "return"
  /\ UNCHANGED <<fn, args, markers, bcFacets, asserted>>
  /\ UNCHANGED <<nbVars, loopVars, diagVars, extVars>>

\* [stiffness_cond(1, 2**i) for i in range(2, 11)]: next i
SC_Next ==
  /\ fn = "stiffness_cond" /\ apc = "return"
  /\ LET k == args.i - StiffnessRange[1] + 1
     IN  IF k < Len(StiffnessRange)
         THEN /\ args' = StiffnessArgs(StiffnessRange[k + 1])
              /\ apc' = "mesh"
         ELSE /\ args' = args
              /\ apc' = "done"
  /\ UNCHANGED <<fn, mesh, sizes, markers, bcFacets, asserted>>
  /\ UNCHANGED <<nbVars, loopVars, diagVars, extVars>>

(* ---- hs_norm and the cell verifying it ---- *)
\* mesh = UnitIntervalMesh(2**i)
HsMesh(i) == UnitIntervalMesh(Pow(2, i))

HS_Mesh ==
  /\ fn = "hs_norm" /\ apc = "mesh"
  /\ mesh' = HsMesh(args.i)
  /\ apc' = "assert"
  /\ UNCHANGED <<fn, args, sizes, markers, bcFacets, asserted>>
  /\ UNCHANGED <<nbVars, loopVars, diagVars, extVars>>

\* assert mesh.geometry().dim() == 1; assert mesh.num_vertices() < 5000
HS_Assert ==
  /\ fn = "hs_norm" /\ apc = "assert"
  /\ IF GeometryDim(mesh) # 1
     THEN asserted' = Append(asserted, FALSE) /\ apc' = "AssertionError"
     ELSE /\ asserted' = asserted \o <<TRUE, NumVertices(mesh) < 5000>>
          /\ apc' = IF NumVertices(mesh) < 5000 THEN "body" ELSE "AssertionError"
  /\ UNCHANGED <<fn, args, mesh, sizes, markers, bcFacets>>
  /\ UNCHANGED <<nbVars, loopVars, diagVars, extVars>>

HS_Body ==
  /\ fn = "hs_norm" /\ apc = "body"
  /\ LET V == FunctionSpace(mesh, "CG", 1)
     IN  sizes' = [sizes EXCEPT !.A = AssembleMatrix(V, V), !.B = AssembleMatrix(V, V)]
  /\ apc' = "return"
  /\ UNCHANGED <<fn, args, mesh, markers, bcFacets, asserted>>
  /\ UNCHANGED <<nbVars, loopVars, diagVars, extVars>>

\* L2_ = hs_norm(mesh, s=0., f=f); H10_ = hs_norm(mesh, s=1., f=f); next i
HS_Next ==
  /\ fn = "hs_norm" /\ apc = "return"
  /\ LET k == args.i - HsRange[1] + 1
     IN  IF args.s = 0
         THEN args' = [args EXCEPT !.s = 1] /\ apc' = "assert"
         ELSE IF k < Len(HsRange)
              THEN /\ args' = [args EXCEPT !.i = HsRange[k + 1], !.s = 0]
                   /\ apc' = "mesh"
              ELSE args' = args /\ apc' = "done"
  /\ UNCHANGED <<fn, mesh, sizes, markers, bcFacets, asserted>>
  /\ UNCHANGED <<nbVars, loopVars, diagVars, extVars>>

(* ---- cd_system_SUPG ---- *)
SUPG_Mesh ==
  /\ fn = "cd_system_SUPG" /\ apc = "mesh"
  /\ mesh' = UnitSquareMesh(args.n, args.n)
  /\ apc' = "assembleA"
  /\ UNCHANGED <<fn, args, sizes, markers, bcFacets, asserted>>
  /\ UNCHANGED <<nbVars, loopVars, diagVars, extVars>>

\* the space the SUPG forms are defined on
SUPG_V == FunctionSpace(mesh, "CG", 1)
\* variant: the preconditioner form is defined on a P2 space
SUPG_PrecondSpace_P2 == FunctionSpace(mesh, "CG", 2)
\* u, v of the preconditioner form are the same TrialFunction(V), TestFunction(V)
SUPG_PrecondSpace == SUPG_V

\* A = assemble(a); b = assemble(L); bc.apply(A, b)
SUPG_AssembleA ==
  /\ fn = "cd_system_SUPG" /\ apc = "assembleA"
  /\ sizes' = [sizes EXCEPT !.A = AssembleMatrix(SUPG_V, SUPG_V),
                            !.b = AssembleVector(SUPG_V)]
  /\ apc' = "assembleB"
  /\ UNCHANGED <<fn, args, mesh, markers, bcFacets, asserted>>
  /\ UNCHANGED <<nbVars, loopVars, diagVars, extVars>>

\* B, _ = assemble_system(a, L, bc)
SUPG_AssembleB ==
  /\ fn = "cd_system_SUPG" /\ apc = "assembleB"
  /\ sizes' = [sizes EXCEPT !.B = AssembleMatrix(SUPG_PrecondSpace, SUPG_PrecondSpace)]
  /\ apc' = "assert"
  /\ UNCHANGED <<fn, args, mesh, markers, bcFacets, asserted>>
  /\ UNCHANGED <<nbVars, loopVars, diagVars, extVars>>

\* assert A.size(0) == A.size(1) == B.size(0) == B.size(1) == b.size()
SUPG_Assert ==
  /\ fn = "cd_system_SUPG" /\ apc = "assert"
  /\ LET ok == /\ sizes.A[1] = sizes.A[2] /\ sizes.A[2] = sizes.B[1]
               /\ sizes.B[1] = sizes.B[2] /\ sizes.B[2] = sizes.b
     IN  /\ asserted' = Append(asserted, ok)
         /\ apc' = IF ok THEN "return" ELSE "AssertionError"
  /\ UNCHANGED <<fn, args, mesh, sizes, markers, bcFacets>>
  /\ UNCHANGED <<nbVars, loopVars, diagVars, extVars>>

(* ---- poisson: facets of the mesh and their markers ---- *)
\* vertices are grid points x = v/n, v in [1..d -> 0..n]
Perms(d) == {q \in [1..d -> 1..d] : \A a, b \in 1..d : q[a] = q[b] => a = b}
\* the d+1 vertices of the simplex of cube c given by the axis order q
SimplexOf(c, q, d) ==
  {[a \in 1..d |-> c[a] + (IF \E j \in 1..k : q[j] = a THEN 1 ELSE 0)] : k \in 0..d}
MeshCells(m) ==
  LET d == GeometryDim(m)
      n == m.cells[1]
  IN  {SimplexOf(c, q, d) : c \in [1..d -> 0..(n - 1)], q \in Perms(d)}
\* facets: the cells' faces of codimension 1, as sets of vertices
Facets(m) == UNION {{cl \ {v} : v \in cl} : cl \in MeshCells(m)}
\* exterior facets belong to exactly one cell (what the 'ds' measure integrates over)
ExteriorFacets(m) ==
  LET cs == MeshCells(m)
      fs == UNION {{cl \ {v} : v \in cl} : cl \in cs}
  IN  {f \in fs : Cardinality({cl \in cs : f \subseteq cl}) = 1}

RECURSIVE SumX0(_)
SumX0(f) == IF f = {} THEN 0
            ELSE LET v == CHOOSE w \in f : TRUE IN v[1] + SumX0(f \ {v})
\* 'near(x[0], 0)' at a vertex and at the midpoint of a facet
Near0(v) == v[1] = 0
MidpointNear0(f) == SumX0(f) = 0
\* SubDomain.mark and DirichletBC take a facet when all its vertices and
\* its midpoint are inside
\* variant: a facet is taken as soon as one of its vertices is inside
FacetInside_any(f) == \E v \in f : Near0(v)
FacetInside(f) == (\A v \in f : Near0(v)) /\ MidpointNear0(f)

\* FacetFunction('size_t', mesh, value)
FacetFunction(m, value) == [f \in Facets(m) |-> value]
\* subdomain.mark(function, value)
Mark(mf, value) == [f \in DOMAIN mf |-> IF FacetInside(f) THEN value ELSE mf[f]]
\* facets of Measure('ds', subdomain_data=boundaries, subdomain_id=1)
dsN == {f \in ExteriorFacets(mesh) : markers[f] = 1}

P_Mesh ==
  /\ fn = "poisson" /\ apc = "mesh"
  /\ mesh' = HyperCubeMesh(args.dim, args.n)
  /\ apc' = "bc"
  /\ UNCHANGED <<fn, args, sizes, markers, bcFacets, asserted>>
  /\ UNCHANGED <<nbVars, loopVars, diagVars, extVars>>

\* bc = DirichletBC(V, Constant(0), 'near(x[0], 0)')
P_DirichletBC ==
  /\ fn = "poisson" /\ apc = "bc"
  /\ bcFacets' = {f \in Facets(mesh) : FacetInside(f)}
  /\ apc' = "boundaries"
  /\ UNCHANGED <<fn, args, mesh, sizes, markers, asserted>>
  /\ UNCHANGED <<nbVars, loopVars, diagVars, extVars>>

\* boundaries = FacetFunction('size_t', mesh, 1)
P_FacetFunction ==
  /\ fn = "poisson" /\ apc = "boundaries"
  /\ markers' = FacetFunction(mesh, 1)
  /\ apc' = "mark"
  /\ UNCHANGED <<fn, args, mesh, sizes, bcFacets, asserted>>
  /\ UNCHANGED <<nbVars, loopVars, diagVars, extVars>>

\* CompiledSubDomain('near(x[0], 0)').mark(boundaries, 0)
P_Mark ==
  /\ fn = "poisson" /\ apc = "mark"
  /\ markers' = Mark(markers, 0)
  /\ apc' = "assemble"
  /\ UNCHANGED <<fn, args, mesh, sizes, bcFacets, asserted>>
  /\ UNCHANGED <<nbVars, loopVars, diagVars, extVars>>

\* A, b = assemble_system(a, L, bc)
P_Assemble ==
  /\ fn = "poisson" /\ apc = "assemble"
  /\ LET V == FunctionSpace(mesh, "CG", 1)
     IN  sizes' = [sizes EXCEPT !.A = AssembleMatrix(V, V), !.b = AssembleVector(V)]
  /\ apc' = "return"
  /\ UNCHANGED <<fn, args, mesh, markers, bcFacets, asserted>>
  /\ UNCHANGED <<nbVars, loopVars, diagVars, extVars>>

InitAsm ==
  /\ fn \in {"stiffness_cond", "hs_norm", "cd_system_SUPG", "poisson"}
  /\ args \in
       CASE fn = "stiffness_cond" -> {StiffnessArgs(StiffnessRange[1])}
         [] fn = "hs_norm" -> {[i |-> HsRange[1], dim |-> 1, n |-> 0, s |-> 0, eps |-> 0]}
         [] fn = "cd_system_SUPG" ->
              {[i |-> 0, dim |-> 2, n |-> n, s |-> 0, eps |-> k] :
                 n \in 1..MaxN, k \in 0..MaxEpsExp}
         [] fn = "poisson" ->
              {[i |-> 0, dim |-> d, n |-> n, s |-> 0, eps |-> 0] :
                 d \in 1..3, n \in 1..MaxFacetN}
  /\ apc = "mesh"
  /\ mesh = NoMesh /\ sizes = NoSizes /\ markers = <<>> /\ bcFacets = {}
  /\ asserted = <<>>
  /\ NBIdle /\ LoopIdle /\ DiagIdle /\ ExtIdle

NextAsm ==
  \/ SC_Mesh \/ SC_Assert \/ SC_Body \/ SC_Next
  \/ HS_Mesh \/ HS_Assert \/ HS_Body \/ HS_Next
  \/ SUPG_Mesh \/ SUPG_AssembleA \/ SUPG_AssembleB \/ SUPG_Assert
  \/ P_Mesh \/ P_DirichletBC \/ P_FacetFunction \/ P_Mark \/ P_Assemble
SpecAsm == InitAsm /\ [][NextAsm]_vars

(* ------------------------ claims on the assembly ----------------------- *)
\* C7: every call of stiffness_cond and hs_norm made by the notebooks passes
\* the functions' asserts: the meshes are intervals with 2**i + 1 < 5000
\* vertices (i = 2..10 resp. 3..10).
C7_GuardsHold ==
  fn \in {"stiffness_cond", "hs_norm"} =>
    /\ apc # "AssertionError"
    /\ \A k \in 1..Len(asserted) : asserted[k]
    /\ apc # "mesh" =>
         /\ GeometryDim(mesh) = 1
         /\ NumVertices(mesh) = Pow(2, args.i) + 1
         /\ NumVertices(mesh) < 5000
    /\ args.i \in (IF fn = "hs_norm" THEN 3..10 ELSE 2..10)
C7_Witness ==
  /\ fn = "hs_norm" /\ apc = "done" /\ args.i = 10
  /\ NumVertices(mesh) = 1025 /\ Len(asserted) = 32

\* C8: in cd_system_SUPG the assert on the dimensions holds for every n >= 1
\* and every epsilon: A, B are (n+1)^2 x (n+1)^2 and b has (n+1)^2 entries.
C8_SizesAgree ==
  fn = "cd_system_SUPG" =>
    /\ apc # "AssertionError"
    /\ apc = "return" =>
         /\ asserted = <<TRUE>>
         /\ sizes.A = <<Pow(args.n + 1, 2), Pow(args.n + 1, 2)>>
         /\ sizes.B = sizes.A
         /\ sizes.b = Pow(args.n + 1, 2)
C8_Witness ==
  /\ fn = "cd_system_SUPG" /\ apc = "return" /\ args.n = 3 /\ args.eps = 2
  /\ sizes.b = 16

\* C9: poisson splits the exterior facets into two disjoint parts covering
\* them: those on x[0] = 0 carry the Dirichlet condition and marker 0, all
\* others carry marker 1 and the Robin term (dsN).
C9_BoundarySplit ==
  (fn = "poisson" /\ apc \in {"assemble", "return"}) =>
    LET ext == ExteriorFacets(mesh)
        robin == dsN
    IN  /\ \A f \in ext :
             /\ (f \in bcFacets) <=> (\A v \in f : v[1] = 0)
             /\ (f \in bcFacets) <=> markers[f] = 0
             /\ (f \in robin) <=> (f \notin bcFacets)
             /\ markers[f] \in {0, 1}
        /\ bcFacets \subseteq ext
        /\ bcFacets # {} /\ robin # {}
C9_Witness ==
  /\ fn = "poisson" /\ apc = "return" /\ args.dim = 2 /\ args.n = 2
  /\ Cardinality(bcFacets) = 2 /\ Cardinality(dsN) = 6

(***************************************************************************)
(* Part 4.  Diag(A) and InvDiag(A).  Matrix entries are exact rationals    *)
(* <<numerator, denominator>> with a positive denominator.                 *)
(***************************************************************************)
MaxDim == 2        \* matrices are k x k, k in 1..MaxDim
MaxEntry == 2      \* diagonal entries are integers in -MaxEntry..MaxEntry

\* greatest common divisor and fractions in lowest terms; they are functions,
\* so that their arguments are evaluated once
GcdOf[a \in Nat, b \in Nat] == IF b = 0 THEN a ELSE GcdOf[b, a % b]
Gcd(a, b) == GcdOf[a, b]
Abs(a) == IF a < 0 THEN -a ELSE a
RatOf[a \in Int, b \in Int] ==
  LET g == GcdOf[Abs(a), Abs(b)]
  IN  IF b < 0 THEN <<(-a) \div g, (-b) \div g>> ELSE <<a \div g, b \div g>>
Rat(a, b) == RatOf[a, b]
Zero == <<0, 1>>
One == <<1, 1>>
RatMul(x, y) == Rat(x[1] * y[1], x[2] * y[2])
RatAdd(x, y) == Rat(x[1] * y[2] + y[1] * x[2], x[2] * y[2])
\* 1/x
RatInv(x) == Rat(x[2], x[1])

\* Mat.getDiagonal(): a new vector holding the diagonal
GetDiagonal(A) == [i \in 1..Len(A) |-> A[i][i]]
\* variant: the reciprocal is forgotten
VecReciprocal_none(v) == v
\* Vec.reciprocal(): every nonzero entry is replaced by its reciprocal
VecReciprocal(v) == [i \in 1..Len(v) |-> IF v[i] = Zero THEN v[i] ELSE RatInv(v[i])]
\* Mat().createAIJ(size, nnz=1) followed by setDiagonal(v)
CreateDiagonal(v) ==
  [i \in 1..Len(v) |-> [j \in 1..Len(v) |-> IF i = j THEN v[i] ELSE Zero]]

RECURSIVE RowTimesCol(_, _, _, _, _)
RowTimesCol(X, Y, i, j, k) ==
  IF k = 0 THEN Zero
  ELSE RatAdd(RatMul(X[i][k], Y[k][j]), RowTimesCol(X, Y, i, j, k - 1))
MatMul(X, Y) ==
  [i \in 1..Len(X) |-> [j \in 1..Len(X) |-> RowTimesCol(X, Y, i, j, Len(X))]]
Identity(k) == [i \in 1..k |-> [j \in 1..k |-> IF i = j THEN One ELSE Zero]]

\* the k x k matrix with diagonal d and off-diagonal entries o
InputMatrix(k, d, o) ==
  [i \in 1..k |-> [j \in 1..k |-> <<(IF i = j THEN d[i] ELSE o[<<i, j>>]), 1>>]]
OffDiagonal(k) == {q \in (1..k) \X (1..k) : q[1] # q[2]}

InitDiag ==
  /\ \E k \in 1..MaxDim :
       \E d \in [1..k -> -MaxEntry..MaxEntry], o \in [OffDiagonal(k) -> {0, 1}] :
          matA = InputMatrix(k, d, o)
  /\ matA0 = matA
  /\ matD = <<>> /\ matI = <<>> /\ dvec = <<>>
  /\ dpc = "InvDiag.getDiagonal"
  /\ NBIdle /\ LoopIdle /\ AsmIdle /\ ExtIdle

\* InvDiag: dvec = as_backend_type(A).mat().getDiagonal()
InvDiag_GetDiagonal ==
  /\ dpc = "InvDiag.getDiagonal"
  /\ dvec' = GetDiagonal(matA)
  /\ dpc' = "InvDiag.reciprocal"
  /\ UNCHANGED <<matA, matA0, matD, matI>>
  /\ UNCHANGED <<nbVars, loopVars, asmVars, extVars>>

\* InvDiag: dvec.reciprocal()
InvDiag_Reciprocal ==
  /\ dpc = "InvDiag.reciprocal"
  /\ dvec' = VecReciprocal(dvec)
  /\ dpc' = "InvDiag.create"
  /\ UNCHANGED <<matA, matA0, matD, matI>>
  /\ UNCHANGED <<nbVars, loopVars, asmVars, extVars>>

\* InvDiag: createAIJ, setDiagonal, return PETScMatrix(diagAinv)
InvDiag_Create ==
  /\ dpc = "InvDiag.create"
  /\ matI' = CreateDiagonal(dvec)
  /\ dvec' = <<>>
  /\ dpc' = "Diag.getDiagonal"
  /\ UNCHANGED <<matA, matA0, matD>>
  /\ UNCHANGED <<nbVars, loopVars, asmVars, extVars>>

\* Diag: dvec = as_backend_type(A).mat().getDiagonal()
Diag_GetDiagonal ==
  /\ dpc = "Diag.getDiagonal"
  /\ dvec' = GetDiagonal(matA)
  /\ dpc' = "Diag.create"
  /\ UNCHANGED <<matA, matA0, matD, matI>>
  /\ UNCHANGED <<nbVars, loopVars, asmVars, extVars>>

\* Diag: createAIJ, setDiagonal, return PETScMatrix(diagAinv)
Diag_Create ==
  /\ dpc = "Diag.create"
  /\ matD' = CreateDiagonal(dvec)
  /\ dvec' = <<>>
  /\ dpc' = "done"
  /\ UNCHANGED <<matA, matA0, matI>>
  /\ UNCHANGED <<nbVars, loopVars, asmVars, extVars>>

NextDiag ==
  \/ InvDiag_GetDiagonal \/ InvDiag_Reciprocal \/ InvDiag_Create
  \/ Diag_GetDiagonal \/ Diag_Create
SpecDiag == InitDiag /\ [][NextDiag]_vars

(* ----------------------- claims on Diag, InvDiag ----------------------- *)
NonzeroDiagonal(A) == \A i \in 1..Len(A) : A[i][i] # Zero

\* C10: for a square A with nonzero diagonal, Diag(A) is the diagonal
\* matrix of the A[i][i], InvDiag(A) the diagonal matrix of the 1/A[i][i],
\* their product is the identity, and neither call changes A.
C10_DiagInvDiag ==
  /\ matA = matA0
  /\ (dpc = "done" /\ NonzeroDiagonal(matA0)) =>
       /\ \A i, j \in 1..Len(matA0) :
            /\ matD[i][j] = (IF i = j THEN matA0[i][i] ELSE Zero)
            /\ matI[i][j] = (IF i = j THEN <<matA0[i][i][2] * (IF matA0[i][i][1] < 0 THEN -1 ELSE 1),
                                              Abs(matA0[i][i][1])>>
                              ELSE Zero)
       /\ MatMul(matD, matI) = Identity(Len(matA0))
       /\ MatMul(matI, matD) = Identity(Len(matA0))
C10_Witness ==
  /\ dpc = "done" /\ Len(matA0) = 2
  /\ matA0[1][1] = <<2, 1>> /\ matA0[2][2] = <<-2, 1>> /\ matA0[1][2] = <<1, 1>>
  /\ matI[1][1] = <<1, 2>> /\ matI[2][2] = <<-1, 2>>

(***************************************************************************)
(* Part 5.  HyperCubeMesh(dim, ncells), evaluated step by step: the dict   *)
(* subscription, the argument tuple, the constructor call.                 *)
(***************************************************************************)
MaxHCDim == 4     \* dim ranges over -1..MaxHCDim
MaxHCCells == 8   \* ncells ranges over 1..MaxHCCells

InitHC ==
  /\ hcDim \in -1..MaxHCDim
  /\ hcN \in 1..MaxHCCells
  /\ hcpc = "lookup"
  /\ hcCtor = "none" /\ hcArgs = <<>> /\ hcCalls = <<>> /\ hcMesh = NoMesh
  /\ CoreIdle /\ StokesIdle /\ GuessIdle /\ MakeIdle /\ RichIdle /\ SDIdle

\* {...}[dim]: the subscription raises KeyError for a key the dict lacks
HC_Lookup ==
  /\ hcpc = "lookup"
  /\ IF hcDim \in DOMAIN MeshConstructors
     THEN hcCtor' = MeshConstructors[hcDim] /\ hcpc' = "args"
     ELSE hcCtor' = hcCtor /\ hcpc' = "KeyError"
  /\ UNCHANGED <<hcDim, hcN, hcArgs, hcCalls, hcMesh>>
  /\ UNCHANGED <<coreVars, stVars, gVars, mkVars, rVars, sdVars>>

\* (ncells, )*dim
HC_Args ==
  /\ hcpc = "args"
  /\ hcArgs' = TupleTimes(hcN, hcDim)
  /\ hcpc' = "call"
  /\ UNCHANGED <<hcDim, hcN, hcCtor, hcCalls, hcMesh>>
  /\ UNCHANGED <<coreVars, stVars, gVars, mkVars, rVars, sdVars>>

\* the constructor is called with the tuple unpacked; a wrong number of
\* arguments is a TypeError and no mesh
HC_Call ==
  /\ hcpc = "call"
  /\ hcCalls' = Append(hcCalls, [ctor |-> hcCtor, args |-> hcArgs])
  /\ IF Len(hcArgs) = Arity(hcCtor)
     THEN hcMesh' = CallConstructor(hcCtor, hcArgs) /\ hcpc' = "return"
     ELSE hcMesh' = hcMesh /\ hcpc' = "TypeError"
  /\ UNCHANGED <<hcDim, hcN, hcCtor, hcArgs>>
  /\ UNCHANGED <<coreVars, stVars, gVars, mkVars, rVars, sdVars>>

NextHC == HC_Lookup \/ HC_Args \/ HC_Call
SpecHC == InitHC /\ [][NextHC]_vars

\* C11: for dim = 1, 2, 3 HyperCubeMesh makes exactly one constructor call,
\* to UnitIntervalMesh, UnitSquareMesh, UnitCubeMesh respectively, with
\* ncells passed dim times, and returns that mesh without raising; for any
\* other (integer) dim it raises KeyError, calls no constructor and builds
\* no mesh.
C11_DispatchByDim ==
  /\ hcDim \in {1, 2, 3} =>
       /\ hcpc \in {"lookup", "args", "call", "return"}
       /\ hcpc = "return" =>
            /\ Len(hcCalls) = 1
            /\ hcCalls[1].ctor = (CASE hcDim = 1 -> "UnitIntervalMesh"
                                    [] hcDim = 2 -> "UnitSquareMesh"
                                    [] hcDim = 3 -> "UnitCubeMesh")
            /\ Len(hcCalls[1].args) = hcDim
            /\ \A i \in 1..hcDim : hcCalls[1].args[i] = hcN
            /\ hcMesh.ctor = hcCalls[1].ctor
            /\ hcMesh.cells = hcCalls[1].args
  /\ hcDim \notin {1, 2, 3} =>
       /\ hcpc \in {"lookup", "KeyError"}
       /\ hcCalls = <<>> /\ hcMesh = NoMesh
C11_Witness ==
  /\ hcpc = "return" /\ hcDim = 3 /\ hcN = 2
  /\ hcMesh = [ctor |-> "UnitCubeMesh", cells |-> <<2, 2, 2>>]

(***************************************************************************)
(* Part 6.  The convergence study and the plot of the Stokes exercise.     *)
(***************************************************************************)
MaxErr == 2    \* an error norm is one of the levels 1..MaxErr

\* hs = [5, 10, 40, 80]
hs == <<5, 10, 40, 80>>
\* for u_deg, p_deg in ((2, 1), (1, 1))
Degrees == <<<<2, 1>>, <<1, 1>>>>
\* stokes_solver: mesh = UnitSquareMesh(h, h)
StokesMesh(h) == UnitSquareMesh(h, h)
\* number of cells of a unit square mesh (two triangles per square)
NumCells(m) == 2 * m.cells[1] * m.cells[2]
\* rate_u, rate_p = np.nan, np.nan
NaN == [E |-> 0, E0 |-> 0, h |-> 0, h0 |-> 0]

InitStokes ==
  /\ stDeg = 1 /\ stKk = 0 /\ stH = hs[1]
  /\ stMesh = NoMesh /\ stPrevMesh = NoMesh
  /\ stEs = <<>> /\ stRate = <<>> /\ stPlot = <<>>
  /\ stpc = "solve"
  /\ CoreIdle /\ HCIdle /\ GuessIdle /\ MakeIdle /\ RichIdle /\ SDIdle

\* u, p, mesh, E_u, E_p = stokes_solver(h, u_deg, p_deg), followed by the
\* rate: with earlier errors, h = float(h) and
\* rate_u = ln(E_u/E_u0)/ln(h/hs[kk-1]); the errors are appended to Es
ST_Solve ==
  /\ stpc = "solve"
  /\ stMesh' = StokesMesh(stH)
  /\ stPrevMesh' = stMesh
  /\ \E E_u \in 1..MaxErr, E_p \in 1..MaxErr :
       /\ stRate' = IF stEs # <<>>
                    THEN [E |-> E_u, E0 |-> stEs[Len(stEs)][1],
                          h |-> stH, h0 |-> hs[(stKk - 1) + 1]]
                    ELSE NaN
       /\ stEs' = Append(stEs, <<E_u, E_p>>)
  /\ stpc' = "print"
  /\ UNCHANGED <<stDeg, stKk, stH, stPlot>>
  /\ UNCHANGED <<coreVars, hcVars, gVars, mkVars, rVars, sdVars>>

\* print E_u, '@', rate_u, E_p, '@', rate_p; next h of enumerate(hs)
ST_NextH ==
  /\ stpc = "print"
  /\ stKk + 1 < Len(hs)
  /\ stKk' = stKk + 1
  /\ stH' = hs[(stKk + 1) + 1]
  /\ stpc' = "solve"
  /\ UNCHANGED <<stDeg, stMesh, stPrevMesh, stEs, stRate, stPlot>>
  /\ UNCHANGED <<coreVars, hcVars, gVars, mkVars, rVars, sdVars>>

\* errors.append(Es); next pair of degrees with Es = []
ST_NextDegrees ==
  /\ stpc = "print"
  /\ stKk + 1 = Len(hs)
  /\ stDeg < Len(Degrees)
  /\ stDeg' = stDeg + 1
  /\ stKk' = 0 /\ stH' = hs[1]
  /\ stEs' = <<>>
  /\ stMesh' = NoMesh /\ stPrevMesh' = NoMesh
  /\ stpc' = "solve"
  /\ UNCHANGED <<stRate, stPlot>>
  /\ UNCHANGED <<coreVars, hcVars, gVars, mkVars, rVars, sdVars>>

\* the plot cell: ax[i].loglog(hs, errors[j, :, k]) with the x axis
\* labelled "Meshsize h"
ST_Plot ==
  /\ stpc = "print"
  /\ stKk + 1 = Len(hs)
  /\ stDeg = Len(Degrees)
  /\ stPlot' = [x |-> hs, xlabel |-> "Meshsize h"]
  /\ stpc' = "plotted"
  /\ UNCHANGED <<stDeg, stKk, stH, stMesh, stPrevMesh, stEs, stRate>>
  /\ UNCHANGED <<coreVars, hcVars, gVars, mkVars, rVars, sdVars>>

NextStokes == ST_Solve \/ ST_NextH \/ ST_NextDegrees \/ ST_Plot
SpecStokes == InitStokes /\ [][NextStokes]_vars

\* C12: the h of the rate formula ln(E/E0)/ln(h/h_prev) and of the axis
\* labelled "Meshsize h" is the mesh size: whenever the mesh handed to the
\* solver is finer than the previous one, h is smaller than h_prev, and the
\* plotted abscissae decrease along the refinement.
C12_HDecreasesWithRefinement ==
  /\ (stpc = "print" /\ stRate # NaN /\ NumCells(stMesh) > NumCells(stPrevMesh))
       => stRate.h < stRate.h0
  /\ stpc = "plotted" =>
       \A i \in 1..(Len(stPlot.x) - 1) :
         NumCells(StokesMesh(hs[i + 1])) > NumCells(StokesMesh(hs[i]))
           => stPlot.x[i + 1] < stPlot.x[i]

(***************************************************************************)
(* Part 7.  The initial guess of the experiment cells: the statements      *)
(* from uh = Function(V) to the solve, for every n of every cell.          *)
(***************************************************************************)
MaxVecLen == 2   \* the first MaxVecLen entries of a vector are followed

\* an entry is 0 (exactly zero) or 1 (any other value)
Vectors == [1..MaxVecLen -> {0, 1}]
\* Function(V): a new function, all coefficients zero
ZeroVector == [i \in 1..MaxVecLen |-> 0]

\* variant: every cell randomises x
GuessStmts_random(l) == <<"Function", "vector", "set_local", "construct", "solve">>
\* the statements of each cell that create, write and use x
GuessStmts(l) ==
  CASE l = "projection"       -> <<"Function", "vector", "construct", "solve">>
    [] l = "steepest_descent" -> <<"Function", "vector", "set_local", "solve">>
    [] OTHER -> <<"Function", "vector", "set_local", "construct", "solve">>

GAt(st) ==
  /\ gLoop \in Loops /\ gpc \in 1..Len(GuessStmts(gLoop))
  /\ GuessStmts(gLoop)[gpc] = st

InitGuess ==
  /\ gLoop \in Loops
  /\ gIdx = 1 /\ gpc = 1
  /\ gVec = <<>> /\ gX = FALSE /\ gGuess = <<>>
  /\ CoreIdle /\ HCIdle /\ StokesIdle /\ MakeIdle /\ RichIdle /\ SDIdle

\* uh = Function(V)
G_Function ==
  /\ GAt("Function")
  /\ gVec' = ZeroVector
  /\ gX' = FALSE
  /\ gpc' = gpc + 1
  /\ UNCHANGED <<gLoop, gIdx, gGuess>>
  /\ UNCHANGED <<coreVars, hcVars, stVars, mkVars, rVars, sdVars>>

\* x = uh.vector()
G_Vector ==
  /\ GAt("vector")
  /\ gX' = TRUE
  /\ gpc' = gpc + 1
  /\ UNCHANGED <<gLoop, gIdx, gVec, gGuess>>
  /\ UNCHANGED <<coreVars, hcVars, stVars, mkVars, rVars, sdVars>>

\* x.set_local(np.random.rand(x.local_size()))
G_SetLocal ==
  /\ GAt("set_local")
  /\ gX
  /\ gVec' \in Vectors
  /\ gpc' = gpc + 1
  /\ UNCHANGED <<gLoop, gIdx, gX, gGuess>>
  /\ UNCHANGED <<coreVars, hcVars, stVars, mkVars, rVars, sdVars>>

\* Ainv = Solver(A=.., precond=.., initial_guess=x, ..): keeps a reference to x
G_Construct ==
  /\ GAt("construct")
  /\ gpc' = gpc + 1
  /\ UNCHANGED <<gLoop, gIdx, gVec, gX, gGuess>>
  /\ UNCHANGED <<coreVars, hcVars, stVars, mkVars, rVars, sdVars>>

\* x[:] = Ainv*b, resp. niters = steepest_descent(A, x, b, B, ..): the
\* iteration starts from the entries x has now and leaves the solution in x
G_Solve ==
  /\ GAt("solve")
  /\ gX
  /\ gGuess' = gVec
  /\ gVec' \in Vectors
  /\ gpc' = gpc + 1
  /\ UNCHANGED <<gLoop, gIdx, gX>>
  /\ UNCHANGED <<coreVars, hcVars, stVars, mkVars, rVars, sdVars>>

\* for n in (...): next value
G_NextN ==
  /\ gLoop \in Loops /\ gpc = Len(GuessStmts(gLoop)) + 1
  /\ gIdx < Len(NList(gLoop))
  /\ gIdx' = gIdx + 1
  /\ gpc' = 1
  /\ gGuess' = <<>>
  /\ UNCHANGED <<gLoop, gVec, gX>>
  /\ UNCHANGED <<coreVars, hcVars, stVars, mkVars, rVars, sdVars>>

\* the tuple is exhausted
G_Done ==
  /\ gLoop \in Loops /\ gpc = Len(GuessStmts(gLoop)) + 1
  /\ gIdx = Len(NList(gLoop))
  /\ gpc' = 0
  /\ UNCHANGED <<gLoop, gIdx, gVec, gX, gGuess>>
  /\ UNCHANGED <<coreVars, hcVars, stVars, mkVars, rVars, sdVars>>

NextGuess ==
  \/ G_Function \/ G_Vector \/ G_SetLocal \/ G_Construct \/ G_Solve
  \/ G_NextN \/ G_Done
SpecGuess == InitGuess /\ [][NextGuess]_vars

\* C13: in the projection experiment, for every n, the vector x is all zero
\* from uh = Function(V) until the solver runs (no statement in between
\* writes to it), so the Richardson iteration starts from the zero guess.
C13_ZeroInitialGuess ==
  gLoop = "projection" =>
    /\ (gpc \in 2..Len(GuessStmts(gLoop)) /\ GuessStmts(gLoop)[gpc] # "Function")
         => gVec = ZeroVector
    /\ gGuess # <<>> => gGuess = ZeroVector
C13_Witness ==
  /\ gLoop = "projection" /\ gIdx = Len(NList("projection"))
  /\ gpc = 0 /\ gGuess = ZeroVector /\ gVec # ZeroVector

(***************************************************************************)
(* Part 8.  The Makefile of the notes: make's timestamp rule applied to    *)
(* the goals of `all`, and edits of the LaTeX sources.                     *)
(***************************************************************************)
MaxClock == 7    \* edits and recipes happen at times 2..MaxClock

Sources == {"precond.tex", "p_intro.tex", "p_lax_milgram.tex", "coupled.tex"}
\* all: precond.pdf coupled.pdf
Goals == <<"precond.pdf", "coupled.pdf">>
\* \input{p_intro.tex}, \input{p_lax_milgram.tex} of precond.tex
PrecondInputs == {"p_intro.tex", "p_lax_milgram.tex"}
\* the file latexmk -pdfps writes for a source
PdfOf(src) ==
  CASE src = "precond.tex"       -> "precond.pdf"
    [] src = "coupled.tex"       -> "coupled.pdf"
    [] src = "p_intro.tex"       -> "p_intro.pdf"
    [] src = "p_lax_milgram.tex" -> "p_lax_milgram.pdf"
Files == Sources \cup {PdfOf(src) : src \in Sources}

\* variant: the \input files are missing from the rule
PrerequisiteList_main_only(t) ==
  CASE t = "precond.pdf" -> <<"precond.tex">>
    [] t = "coupled.pdf" -> <<"coupled.tex">>
\* precond.pdf: precond.tex p_intro.tex p_lax_milgram.tex
\* coupled.pdf: coupled.tex
PrerequisiteList(t) ==
  CASE t = "precond.pdf" -> <<"precond.tex", "p_intro.tex", "p_lax_milgram.tex">>
    [] t = "coupled.pdf" -> <<"coupled.tex">>
Prerequisites(t) == {PrerequisiteList(t)[i] : i \in 1..Len(PrerequisiteList(t))}

\* make rebuilds a target that does not exist or is older than a prerequisite
OutOfDate(mt, t) == mt[t] = 0 \/ \E q \in Prerequisites(t) : mt[q] > mt[t]

\* make all: the goals in order; the recipe latexmk ... $< runs on the first
\* prerequisite; ok[t] is whether it succeeds, make stops at the first failure
RECURSIVE RunMake(_, _, _, _, _)
RunMake(mt, c, done, goals, ok) ==
  IF goals = <<>>
  THEN [mtime |-> mt, clock |-> c, ran |-> done, status |-> 0]
  ELSE LET t == Head(goals)
           pdf == PdfOf(PrerequisiteList(t)[1])
       IN  IF ~OutOfDate(mt, t)
           THEN RunMake(mt, c, done, Tail(goals), ok)
           ELSE IF ok[t]
                THEN RunMake([mt EXCEPT ![pdf] = c + 1], c + 1, done \cup {t},
                             Tail(goals), ok)
                ELSE [mtime |-> mt, clock |-> c + 1, ran |-> done \cup {t},
                      status |-> 2]

InitMake ==
  /\ mtime = [f \in Files |-> IF f \in Sources THEN 1 ELSE 0]
  /\ clock = 1
  /\ ran = {} /\ mkStatus = 0
  /\ edited = Sources
  /\ lastOp = "none"
  /\ CoreIdle /\ HCIdle /\ StokesIdle /\ GuessIdle /\ RichIdle /\ SDIdle

\* a source file is changed and saved
Edit ==
  /\ clock < MaxClock
  /\ \E f \in Sources :
       /\ mtime' = [mtime EXCEPT ![f] = clock + 1]
       /\ edited' = edited \cup {f}
  /\ clock' = clock + 1
  /\ lastOp' = "edit"
  /\ UNCHANGED <<ran, mkStatus>>
  /\ UNCHANGED <<coreVars, hcVars, stVars, gVars, rVars, sdVars>>

\* make all
MakeAll ==
  /\ clock + Len(Goals) <= MaxClock
  /\ \E ok \in [{Goals[i] : i \in 1..Len(Goals)} -> BOOLEAN] :
       LET res == RunMake(mtime, clock, {}, Goals, ok)
       IN  /\ mtime' = res.mtime
           /\ clock' = res.clock
           /\ ran' = res.ran
           /\ mkStatus' = res.status
           /\ edited' = IF res.status = 0 THEN {} ELSE edited
  /\ lastOp' = "make"
  /\ UNCHANGED <<coreVars, hcVars, stVars, gVars, rVars, sdVars>>

\* make clean: latexmk -C removes the generated files
Clean ==
  /\ mtime' = [f \in Files |-> IF f \in Sources THEN mtime[f] ELSE 0]
  /\ edited' = Sources
  /\ lastOp' = "clean"
  /\ UNCHANGED <<clock, ran, mkStatus>>
  /\ UNCHANGED <<coreVars, hcVars, stVars, gVars, rVars, sdVars>>

NextMake == Edit \/ MakeAll \/ Clean
SpecMake == InitMake /\ [][NextMake]_vars

\* C14: the prerequisites of precond.pdf are precond.tex and the files it
\* \input's; after a make all that succeeded, precond.pdf and coupled.pdf
\* exist and are not older than any of their prerequisites; and when, since
\* the last successful make all, only files among those three were changed
\* (and nothing was cleaned),
\* the next make all runs the recipe of precond.pdf and not that of
\* coupled.pdf.
C14_PrecondRebuiltOnly ==
  /\ [](/\ Prerequisites("precond.pdf") = {"precond.tex"} \cup PrecondInputs
        /\ (lastOp = "make" /\ mkStatus = 0) =>
             \A i \in 1..Len(Goals) : ~OutOfDate(mtime, Goals[i]))
  /\ [][(/\ lastOp' = "make"
         /\ edited # {}
         /\ edited \subseteq {"precond.tex"} \cup PrecondInputs)
        => ("precond.pdf" \in ran' /\ "coupled.pdf" \notin ran')]_vars
C14_Witness ==
  /\ lastOp = "make" /\ mkStatus = 0 /\ ran = {"precond.pdf"}
  /\ mtime["coupled.pdf"] > 0
  /\ mtime["p_intro.tex"] > mtime["coupled.pdf"]
  /\ mtime["precond.pdf"] > mtime["p_intro.tex"]

(***************************************************************************)
(* Part 9.  The contraction factor of the Richardson map                   *)
(* T u = u + rho tau (b - A u) in the proof of the Lax-Milgram theorem,    *)
(* evaluated on rationals.                                                 *)
(***************************************************************************)
MaxNum == 3    \* alpha, C, rho are fractions of integers up to MaxNum

RatNeg(x) == <<-x[1], x[2]>>
RatSub(x, y) == RatAdd(x, RatNeg(y))
RatLess(x, y) == x[1] * y[2] < y[1] * x[2]
Two == <<2, 1>>

\* variant: the continuity constant enters once only, as in
\* rho^2 C |v| |Av| two lines above the final bound
Factor_linear(rho, alpha, C) ==
  RatAdd(RatSub(One, RatMul(Two, RatMul(rho, alpha))),
         RatMul(RatMul(rho, rho), C))
\* 1 - 2 rho alpha + rho^2 C^2
Factor(rho, alpha, C) ==
  RatAdd(RatSub(One, RatMul(Two, RatMul(rho, alpha))),
         RatMul(RatMul(rho, rho), RatMul(C, C)))
\* the interval (0, 2 alpha / C^2)
InInterval(rho, alpha, C) ==
  /\ RatLess(Zero, rho)
  /\ RatLess(rho, RatMul(RatMul(Two, alpha), RatInv(RatMul(C, C))))
\* the smallest epsilon, 1 - alpha^2 / C^2
SmallestFactor(alpha, C) ==
  RatSub(One, RatMul(RatMul(alpha, alpha), RatInv(RatMul(C, C))))
\* ... obtained for rho = alpha / C^2
Minimiser(alpha, C) == RatMul(alpha, RatInv(RatMul(C, C)))

InitRich ==
  /\ \E an \in 1..MaxNum, ad \in 1..MaxNum : rAlpha = Rat(an, ad)
  /\ \E cn \in 1..MaxNum, cd \in 1..MaxNum : rC = Rat(cn, cd)
  /\ \E rn \in -1..(2 * MaxNum), rd \in 1..MaxNum : rRho = Rat(rn, rd)
  /\ rFactor = <<>>
  /\ rpc = "start"
  /\ CoreIdle /\ HCIdle /\ StokesIdle /\ GuessIdle /\ MakeIdle /\ SDIdle

\* the bound |T v|^2 <= (1 - 2 rho alpha + rho^2 C^2) |v|^2 for the chosen rho
R_Factor ==
  /\ rpc = "start"
  /\ rFactor' = Factor(rRho, rAlpha, rC)
  /\ rpc' = "factor"
  /\ UNCHANGED <<rAlpha, rC, rRho>>
  /\ UNCHANGED <<coreVars, hcVars, stVars, gVars, mkVars, sdVars>>

\* the same bound for the rho the note names as the best one
R_Minimum ==
  /\ rpc = "factor"
  /\ rRho' = Minimiser(rAlpha, rC)
  /\ rFactor' = Factor(Minimiser(rAlpha, rC), rAlpha, rC)
  /\ rpc' = "minimum"
  /\ UNCHANGED <<rAlpha, rC>>
  /\ UNCHANGED <<coreVars, hcVars, stVars, gVars, mkVars, sdVars>>

NextRich == R_Factor \/ R_Minimum
SpecRich == InitRich /\ [][NextRich]_vars

\* C15: for alpha > 0 and C > 0 the factor 1 - 2 rho alpha + rho^2 C^2 is
\* below 1 for every rho in (0, 2 alpha / C^2); no rho gives a factor below
\* 1 - alpha^2 / C^2, and rho = alpha / C^2 gives exactly that value.
C15_ContractionFactor ==
  rpc \in {"factor", "minimum"} =>
    /\ InInterval(rRho, rAlpha, rC) => RatLess(rFactor, One)
    /\ ~RatLess(rFactor, SmallestFactor(rAlpha, rC))
    /\ rpc = "minimum" =>
         /\ rFactor = SmallestFactor(rAlpha, rC)
         /\ InInterval(rRho, rAlpha, rC)
C15_Witness ==
  /\ rpc = "minimum" /\ rAlpha = <<1, 2>> /\ rC = <<1, 1>>
  /\ rRho = <<1, 2>> /\ rFactor = <<3, 4>>

(***************************************************************************)
(* Part 10.  steepest_descent(A, x, b, B, tolerance, maxiter) on 2 x 2     *)
(* systems with rational entries.  error = sqrt(r.inner(r)) is kept as its *)
(* square; error > tolerance is decided on the squares.                    *)
(***************************************************************************)
MaxIter == 2      \* maxiter ranges over -1..MaxIter
MaxSDEntry == 2   \* diagonal entries of A range over -1..MaxSDEntry

RECURSIVE InnerUpTo(_, _, _)
InnerUpTo(u, v, k) ==
  IF k = 0 THEN Zero ELSE RatAdd(RatMul(u[k], v[k]), InnerUpTo(u, v, k - 1))
\* u.inner(v)
Inner(u, v) == InnerUpTo(u, v, Len(u))
\* A*v
MatVec(M, v) == [i \in 1..Len(M) |-> Inner(M[i], v)]
\* b - A*x
Residual(A, x, b) == [i \in 1..Len(b) |-> RatSub(b[i], MatVec(A, x)[i])]
\* x += rho*p
Axpy(x, rho, p) == [i \in 1..Len(x) |-> RatAdd(x[i], RatMul(rho, p[i]))]
\* error > tolerance, with err2 = error^2 >= 0
ErrorAbove(err2, tol) == RatLess(tol, Zero) \/ RatLess(RatMul(tol, tol), err2)

\* variant: one pass too many
LoopCondition_off_by_one(err2, tol, it, maxit) ==
  ErrorAbove(err2, tol) /\ it <= maxit
\* while error > tolerance and iter < maxiter
LoopCondition(err2, tol, it, maxit) == ErrorAbove(err2, tol) /\ it < maxit

\* p = B*r and the denominator Ap.inner(p) of rho
SearchDirection == MatVec(sdB, sdr)
Denominator == Inner(MatVec(sdA, SearchDirection), SearchDirection)

InitSD ==
  /\ sdA = <<>> /\ sdB = <<>> /\ sdb = <<>> /\ sdx = <<>> /\ sdTol = <<>>
  /\ sdMaxiter = 0
  /\ sdr = <<>> /\ sdErr2 = <<>> /\ sdIter = 0
  /\ sdpc = "call"
  /\ CoreIdle /\ HCIdle /\ StokesIdle /\ GuessIdle /\ MakeIdle /\ RichIdle

\* the caller passes A (symmetric), B (diagonal), b, x = 0, tolerance, maxiter
SD_Call ==
  /\ sdpc = "call"
  /\ \E a1 \in -1..MaxSDEntry, a2 \in -1..MaxSDEntry, o \in {0, 1} :
       sdA' = << <<Rat(a1, 1), Rat(o, 1)>>, <<Rat(o, 1), Rat(a2, 1)>> >>
  /\ \E e1 \in {0, 1}, e2 \in {0, 1} :
       sdB' = << <<Rat(e1, 1), Zero>>, <<Zero, Rat(e2, 1)>> >>
  /\ \E b1 \in {0, 1}, b2 \in {0, 1} : sdb' = <<Rat(b1, 1), Rat(b2, 1)>>
  /\ sdx' = <<Zero, Zero>>
  /\ sdTol' \in {Rat(-1, 1), Zero, Rat(1, 2)}
  /\ sdMaxiter' \in -1..MaxIter
  /\ sdpc' = "entry"
  /\ UNCHANGED <<sdr, sdErr2, sdIter>>
  /\ UNCHANGED <<coreVars, hcVars, stVars, gVars, mkVars, rVars>>

\* r = b - A*x; error = sqrt(r.inner(r)); iter = 0
SD_Entry ==
  /\ sdpc = "entry"
  /\ \E r \in {Residual(sdA, sdx, sdb)} :
       /\ sdr' = r
       /\ sdErr2' = Inner(r, r)
  /\ sdIter' = 0
  /\ sdpc' = "while"
  /\ UNCHANGED <<sdA, sdB, sdb, sdx, sdTol, sdMaxiter>>
  /\ UNCHANGED <<coreVars, hcVars, stVars, gVars, mkVars, rVars>>

\* one pass of the loop body: p = B*r; Ap = A*p;
\* rho = r.inner(p)/Ap.inner(p); x += rho*p; r = b - A*x;
\* error = sqrt(r.inner(r)); iter += 1
SD_Pass ==
  /\ sdpc = "while"
  /\ LoopCondition(sdErr2, sdTol, sdIter, sdMaxiter)
  /\ \E p \in {SearchDirection} :
     \E Ap \in {MatVec(sdA, p)} :
     \E den \in {Inner(Ap, p)} :
       /\ den # Zero
       /\ \E num \in {Inner(sdr, p)} :
          \E rho \in {RatMul(num, RatInv(den))} :
          \E x1 \in {Axpy(sdx, rho, p)} :
          \E r1 \in {Residual(sdA, x1, sdb)} :
            /\ sdx' = x1
            /\ sdr' = r1
            /\ sdErr2' = Inner(r1, r1)
  /\ sdIter' = sdIter + 1
  /\ UNCHANGED <<sdA, sdB, sdb, sdTol, sdMaxiter, sdpc>>
  /\ UNCHANGED <<coreVars, hcVars, stVars, gVars, mkVars, rVars>>

\* rho = r.inner(p)/Ap.inner(p) with Ap.inner(p) == 0.0: float division by zero
SD_ZeroDivision ==
  /\ sdpc = "while"
  /\ LoopCondition(sdErr2, sdTol, sdIter, sdMaxiter)
  /\ \E p \in {SearchDirection} :
     \E Ap \in {MatVec(sdA, p)} : Inner(Ap, p) = Zero
  /\ sdpc' = "ZeroDivisionError"
  /\ UNCHANGED <<sdA, sdB, sdb, sdx, sdTol, sdMaxiter, sdr, sdErr2, sdIter>>
  /\ UNCHANGED <<coreVars, hcVars, stVars, gVars, mkVars, rVars>>

\* return iter
SD_Return ==
  /\ sdpc = "while"
  /\ ~LoopCondition(sdErr2, sdTol, sdIter, sdMaxiter)
  /\ sdpc' = "return"
  /\ UNCHANGED <<sdA, sdB, sdb, sdx, sdTol, sdMaxiter, sdr, sdErr2, sdIter>>
  /\ UNCHANGED <<coreVars, hcVars, stVars, gVars, mkVars, rVars>>

NextSD == SD_Call \/ SD_Entry \/ SD_Pass \/ SD_ZeroDivision \/ SD_Return
SpecSD == InitSD /\ [][NextSD]_vars
\* the interpreter goes on executing the function until it returns or raises
SpecSDFair == SpecSD /\ WF_vars(NextSD)

IterBound == IF sdMaxiter > 0 THEN sdMaxiter ELSE 0

\* C16 as stated: for every input the call returns (it never ends in an
\* exception), with 0 <= iter <= max(maxiter, 0) and, on return,
\* error <= tolerance or iter >= maxiter.
C16_ReturnsForEveryInput ==
  /\ sdpc # "ZeroDivisionError"
  /\ sdpc = "return" =>
       /\ 0 <= sdIter /\ sdIter <= IterBound
       /\ ~ErrorAbove(sdErr2, sdTol) \/ sdIter >= sdMaxiter

\* C16 as amended: the call always ends, after at most max(maxiter, 0)
\* passes of the loop, either by returning iter with
\* 0 <= iter <= max(maxiter, 0) and (not error > tolerance, or
\* iter >= maxiter), or by raising ZeroDivisionError in a pass where
\* Ap.inner(p) is zero.
C16_EndsWithinMaxiter ==
  /\ [](0 <= sdIter /\ sdIter <= IterBound)
  /\ [](sdpc = "return" =>
          (~ErrorAbove(sdErr2, sdTol) \/ sdIter >= sdMaxiter))
  /\ [](sdpc = "ZeroDivisionError" =>
          (Denominator = Zero /\ sdIter < sdMaxiter))
  /\ <>(sdpc \in {"return", "ZeroDivisionError"})
C16_Witness ==
  /\ sdpc = "return" /\ sdIter = 2 /\ sdMaxiter = 2
  /\ ErrorAbove(sdErr2, sdTol)

====
